---- MODULE Spec2Model ----
(***************************************************************************)
(* A model of the Cloud.dk CSI driver (danitso/clouddk-csi-driver):        *)
(*   - the capacity parser and the volume-ID codec (pure functions),       *)
(*   - the controller and node RPCs as the dispatcher wires them,          *)
(*   - the NetworkStorage methods that edit a storage server's NFS         *)
(*     exports and its "nodes" ipset.                                      *)
(* Strings whose characters matter (volume IDs, server IDs, IP addresses,  *)
(* lines of /etc/exports) are sequences of one-character strings.          *)
(***************************************************************************)
EXTENDS Integers, Sequences, FiniteSets, TLC

VARIABLES
    fn,        \* last application of a pure function or method: [op, in, out]
    servers,   \* IaaS: the cloud servers that exist, a set of records
    nextId,    \* IaaS: number of servers created so far (ids are "1", "11", ...)
    unique,    \* IaaS: TRUE when the provider rejects a POST of a taken hostname
    pc,        \* per CreateVolume call: its position in createNetworkStorage
    cv,        \* per CreateVolume call: its request and locals
    resp,      \* the response of the RPC or method call that returned last
    staged,    \* node: the staging paths that hold a mount
    ns,        \* the NetworkStorage receiver the methods are invoked on
    ipset,     \* storage server: members of the ipset "nodes"
    exports,   \* storage server: the lines of /etc/exports, in order
    scripts,   \* storage server: the files /etc/network/if-up.d/10-nfs-<node>
    granted,   \* history: the nodes an AddNode has succeeded for
    faulted,   \* history: TRUE once the environment injected a fault
    waiter     \* the call of Wait in progress: its locals and its result

vars == <<fn, servers, nextId, unique, pc, cv, resp, staged, ns, ipset, exports,
          scripts, granted, faulted, waiter>>

(***************************************************************************)
(* Bounds of the model.                                                    *)
(***************************************************************************)
MaxCapSteps == 3   \* capacities are tried around 1..MaxCapSteps GiB
MaxIdLen == 4      \* volume IDs of up to MaxIdLen characters are decoded
MaxCalls == 2      \* concurrent CreateVolume calls
MaxServers == 2    \* servers the IaaS lets the model create
MaxLines == 3      \* lines /etc/exports may hold in the model

(***************************************************************************)
(* Helpers on sequences.                                                   *)
(***************************************************************************)
Range(s) == {s[i] : i \in 1..Len(s)}

RECURSIVE SeqsUpTo(_, _)
SeqsUpTo(S, n) ==
    IF n = 0 THEN {<<>>}
    ELSE LET shorter == SeqsUpTo(S, n - 1)
         IN shorter \cup {Append(s, x) : s \in shorter, x \in S}

(***************************************************************************)
(* Capacity parser.                                                        *)
(***************************************************************************)
GiB == 1073741824

\* A byte count (an int64 of the CSI request, never negative) as the pair
\* of its GiB and the bytes left: g * 2^30 + b with 0 <= b < 2^30.
Bytes(g, b) == [g |-> g, b |-> b]

Less(x, y) == x.g < y.g \/ (x.g = y.g /\ x.b < y.b)

Positive(x) == x.g > 0 \/ x.b > 0

MaxBytes(x, y) == IF Less(x, y) THEN y ELSE x

defaultVolumeCapacityInBytes == Bytes(16, 0)
maximumVolumeCapacityInBytes == Bytes(8192, 0)
minimumVolumeCapacityInBytes == Bytes(1, 0)

\* math.Ceil(float64(a) / 1073741824) for 0 <= a <= 2^53: the division by a
\* power of two is exact in float64.
CeilGiB(x) == IF x.b > 0 THEN x.g + 1 ELSE x.g

\* The size rounded up by adding one to the whole GiB, always.
parseCapacitySizeNext(capacityRequired, capacityLimit) ==
    MaxBytes(capacityRequired, capacityLimit).g + 1

\* The size rounded down instead of up.
parseCapacitySizeFloor(capacityRequired, capacityLimit) ==
    MaxBytes(capacityRequired, capacityLimit).g

\* parseCapacity, the size returned: ceil(max(required, limit) / 1 GiB).
parseCapacitySize(capacityRequired, capacityLimit) ==
    CeilGiB(MaxBytes(capacityRequired, capacityLimit))

\* parseCapacity without the check of the limit against the minimum.
parseCapacityNoLimitMin(required, limit) ==
    LET capacityLimitDefined == Positive(limit)
        capacityRequiredDefined == Positive(required)
        capacityRequired == IF ~capacityLimitDefined /\ ~capacityRequiredDefined
                            THEN defaultVolumeCapacityInBytes ELSE required
    IN  IF capacityRequiredDefined /\ Less(capacityRequired, minimumVolumeCapacityInBytes)
        THEN [err |-> "required below minimum", capacity |-> 0]
        ELSE IF capacityRequiredDefined /\ Less(maximumVolumeCapacityInBytes, capacityRequired)
        THEN [err |-> "required above maximum", capacity |-> 0]
        ELSE IF capacityLimitDefined /\ Less(maximumVolumeCapacityInBytes, limit)
        THEN [err |-> "limit above maximum", capacity |-> 0]
        ELSE IF capacityRequiredDefined /\ capacityLimitDefined /\ Less(limit, capacityRequired)
        THEN [err |-> "required above limit", capacity |-> 0]
        ELSE [err |-> "", capacity |-> parseCapacitySize(capacityRequired, limit)]

\* parseCapacity(cr): the capacity in GiB, or an error (err # "").
parseCapacity(required, limit) ==
    LET capacityLimitDefined == Positive(limit)
        capacityRequiredDefined == Positive(required)
        capacityRequired == IF ~capacityLimitDefined /\ ~capacityRequiredDefined
                            THEN defaultVolumeCapacityInBytes ELSE required
    IN  IF capacityRequiredDefined /\ Less(capacityRequired, minimumVolumeCapacityInBytes)
        THEN [err |-> "required below minimum", capacity |-> 0]
        ELSE IF capacityLimitDefined /\ Less(limit, minimumVolumeCapacityInBytes)
        THEN [err |-> "limit below minimum", capacity |-> 0]
        ELSE IF capacityRequiredDefined /\ Less(maximumVolumeCapacityInBytes, capacityRequired)
        THEN [err |-> "required above maximum", capacity |-> 0]
        ELSE IF capacityLimitDefined /\ Less(maximumVolumeCapacityInBytes, limit)
        THEN [err |-> "limit above maximum", capacity |-> 0]
        ELSE IF capacityRequiredDefined /\ capacityLimitDefined /\ Less(limit, capacityRequired)
        THEN [err |-> "required above limit", capacity |-> 0]
        ELSE [err |-> "", capacity |-> parseCapacitySize(capacityRequired, limit)]

\* The byte counts the capacity parser is tried on: 0 (undefined), values
\* around each of the first MaxCapSteps GiB, the default, and values around
\* the maximum.
CapValues ==
    {Bytes(0, 0), Bytes(0, 1), Bytes(0, GiB \div 2), defaultVolumeCapacityInBytes}
    \cup {Bytes(k - 1, GiB - 1) : k \in 1..MaxCapSteps}
    \cup {Bytes(k, b) : k \in 1..MaxCapSteps, b \in {0, 1, GiB \div 2}}
    \cup {Bytes(8191, 0), Bytes(8191, GiB - 1), maximumVolumeCapacityInBytes,
          Bytes(8192, 1), Bytes(8193, 0)}

(***************************************************************************)
(* Volume-ID codec.                                                        *)
(***************************************************************************)
volumePrefixBlockStorage == <<"b", "s">>
volumePrefixNetworkStorage == <<"n", "s">>

\* fmt.Sprintf("%s-%s", prefix, id)
EncodeVolumeID(prefix, id) == prefix \o <<"-">> \o id

\* strings.Split(s, "-"): the parts between the separators, in order; a
\* string with n separators gives n + 1 parts, empty parts included.
RECURSIVE SplitFrom(_, _, _)
SplitFrom(s, i, cur) ==
    IF i > Len(s) THEN <<cur>>
    ELSE IF s[i] = "-" THEN <<cur>> \o SplitFrom(s, i + 1, <<>>)
    ELSE SplitFrom(s, i + 1, Append(cur, s[i]))

\* A split at the first separator only (strings.SplitN(s, "-", 2)).
RECURSIVE SplitFirst(_, _, _)
SplitFirst(s, i, cur) ==
    IF i > Len(s) THEN <<cur>>
    ELSE IF s[i] = "-" THEN <<cur, SubSeq(s, i + 1, Len(s))>>
    ELSE SplitFirst(s, i + 1, Append(cur, s[i]))

StringsSplitFirst(s) == SplitFirst(s, 1, <<>>)

StringsSplit(s) == SplitFrom(s, 1, <<>>)

\* The decoding every RPC repeats: split, demand two parts, switch on the
\* prefix. code is "" when the ID is accepted.
DecodeVolumeID(volumeId) ==
    LET volumeInfo == StringsSplit(volumeId)
    IN  IF Len(volumeInfo) # 2
        THEN [code |-> "InvalidArgument", type |-> <<>>, id |-> <<>>]
        ELSE IF volumeInfo[1] = volumePrefixBlockStorage
        THEN [code |-> "", type |-> volumePrefixBlockStorage, id |-> volumeInfo[2]]
        ELSE IF volumeInfo[1] = volumePrefixNetworkStorage
        THEN [code |-> "", type |-> volumePrefixNetworkStorage, id |-> volumeInfo[2]]
        ELSE [code |-> "InvalidArgument", type |-> <<>>, id |-> <<>>]

IdChars == {"n", "s", "b", "-", "1"}

\* The strings the codec is tried on.
VolumeIdStrings == SeqsUpTo(IdChars, MaxIdLen) \cup {<<"n", "s", "-", "a", "b", "c", "-", "d", "e", "f">>}

\* Cloud server identifiers: non-empty, without the separator.
ValidCloudIds == {s \in SeqsUpTo(IdChars \ {"-"}, MaxIdLen - 1) : s # <<>>}

(***************************************************************************)
(* The IaaS and the data of the dispatcher.                                *)
(***************************************************************************)
Calls == 1..MaxCalls

\* The name the CreateVolume requests carry (the calls that race have the
\* same name); a request may also come without a name.
Names == {"pvc-1"}

nsFormatHostname == "k8s-network-storage-"

\* fmt.Sprintf(nsFormatHostname, name)
Hostname(name) == nsFormatHostname \o name

\* The identifier the IaaS gives its n-th server: a string without "-".
ServerIdOf(n) == [i \in 1..n |-> "1"]

ServerIds == {ServerIdOf(n) : n \in 1..MaxServers}

\* The Driver a NetworkStorage refers to; NoDriver is the nil pointer.
TheDriver == "driver"
NoDriver == "nil"

NoNS == [driver |-> NoDriver, ID |-> <<>>, IP |-> <<>>, Size |-> 0]

StorageIP == <<"1", "0", ".", "0", ".", "0", ".", "9">>

MULTI_NODE_MULTI_WRITER == "MULTI_NODE_MULTI_WRITER"
MULTI_NODE_READER_ONLY == "MULTI_NODE_READER_ONLY"
SINGLE_NODE_WRITER == "SINGLE_NODE_WRITER"

\* Driver.VolumeCapabilities as NewDriver sets it.
DriverVolumeCapabilities == {MULTI_NODE_MULTI_WRITER}

\* The capability lists and capacity ranges the RPCs are tried with.
CapLists == {<<>>, <<MULTI_NODE_MULTI_WRITER>>, <<SINGLE_NODE_WRITER>>,
             <<MULTI_NODE_READER_ONLY>>,
             <<MULTI_NODE_MULTI_WRITER, SINGLE_NODE_WRITER>>}

CreateRanges == {<<Bytes(0, 0), Bytes(0, 0)>>, <<Bytes(0, GiB \div 2), Bytes(0, 0)>>}

ErrorCodes == {"InvalidArgument", "NotFound", "AlreadyExists", "OutOfRange",
               "Unimplemented", "Internal"}

\* The fields of a request besides its name, volume ID and node ID.
NoRequest == [caps |-> <<>>, contentSource |-> FALSE, readonly |-> FALSE,
              required |-> Bytes(0, 0), limit |-> Bytes(0, 0),
              stagingTargetPath |-> "", hasCapability |-> FALSE]

NoResp == [kind |-> "none", name |-> "", arg |-> <<>>, node |-> "", result |-> "",
           cause |-> "none",
           request |-> NoRequest, confirmed |-> <<>>,
           reqs |-> <<>>, posted |-> <<>>, found |-> FALSE, fault |-> FALSE,
           volume |-> [id |-> <<>>, bytes |-> Bytes(0, 0)]]

\* True when a method of NetworkStorage dereferences ns.driver while it is
\* nil: the goroutine panics and the process ends.
NilDriver(n) == n.driver = NoDriver

\* The driver reference createNetworkStorage and loadNetworkStorage store in
\* the NetworkStorage they build: the struct literals leave the field out.
BuiltDriver(d) == NoDriver

NoServer == [id |-> <<>>, hostname |-> "", ifs |-> FALSE, ip |-> <<>>, disk |-> 0]

\* getServerByHostname: list the cloud servers and keep the one with the
\* hostname; err when the request fails or no server has it.
getServerByHostname(srvs, hostname, fault) ==
    IF fault \/ ~\E s \in srvs : s.hostname = hostname
    THEN [err |-> TRUE, server |-> NoServer]
    ELSE [err |-> FALSE, server |-> CHOOSE s \in srvs : s.hostname = hostname]

\* clouddk.DoClientRequest with one attempt, as the response pointer and the
\* error it hands back: a request that got no HTTP response at all (fault
\* "transport") has no response to return, a response with a status that is
\* not accepted comes back together with the error.
DoClientRequest(status, fault) ==
    IF fault = "transport" THEN [res |-> "nil", err |-> TRUE, status |-> 0]
    ELSE IF fault = "api" THEN [res |-> "response", err |-> TRUE, status |-> 500]
    ELSE [res |-> "response", err |-> status # 200, status |-> status]

\* loadNetworkStorage(d, id). fault is "none", "transport" (no response),
\* "api" (a status other than 200 and 404) or "decode" (the body cannot be
\* decoded). An empty id asks for "cloudservers/", the list, which is no
\* server body. On an error the code reads res.StatusCode: a nil res panics.
loadNetworkStorage(srvs, id, fault) ==
    LET reqs == <<<<"GET", id>>>>
        fail(nf) == [ns |-> NoNS, notFound |-> nf, err |-> TRUE, panic |-> FALSE,
                     reqs |-> reqs]
        res == DoClientRequest(IF id = <<>> \/ \E s \in srvs : s.id = id
                               THEN 200 ELSE 404, fault)
    IN  IF res.err
        THEN IF res.res = "nil"
             THEN [ns |-> NoNS, notFound |-> FALSE, err |-> FALSE, panic |-> TRUE,
                   reqs |-> reqs]
             ELSE fail(res.status = 404)
        ELSE IF id = <<>> THEN fail(FALSE)
        ELSE IF fault = "decode" THEN fail(FALSE)
        ELSE LET server == CHOOSE s \in srvs : s.id = id
             IN  IF ~server.ifs THEN fail(FALSE)
                 ELSE [ns |-> [driver |-> BuiltDriver(TheDriver), ID |-> server.id,
                               IP |-> StorageIP, Size |-> server.disk],
                       notFound |-> FALSE, err |-> FALSE, panic |-> FALSE, reqs |-> reqs]

\* NetworkStorage.Delete: DELETE cloudservers/<id>, 200 and 404 accepted.
\* Gives the servers left, whether the call panicked, and its error.
Delete(n, srvs, fault) ==
    IF NilDriver(n)
    THEN [panic |-> TRUE, err |-> FALSE, servers |-> srvs, reqs |-> <<>>]
    ELSE IF fault
    THEN [panic |-> FALSE, err |-> TRUE, servers |-> srvs, reqs |-> <<<<"DELETE", n.ID>>>>]
    ELSE [panic |-> FALSE, err |-> FALSE,
          servers |-> {s \in srvs : s.id # n.ID}, reqs |-> <<<<"DELETE", n.ID>>>>]

(***************************************************************************)
(* The storage server: /etc/exports, the ipset "nodes", the per-node       *)
(* scripts. The consumer nodes are cloud servers of the same account.      *)
(***************************************************************************)
IPa == <<"1", "0", ".", "0", ".", "0", ".", "1">>
IPb == <<"1", "0", ".", "0", ".", "0", ".", "1", "0">>

NodeServers ==
    {[id |-> <<"a">>, hostname |-> "node-a", ifs |-> TRUE, ip |-> IPa, disk |-> 0],
     [id |-> <<"b">>, hostname |-> "node-b", ifs |-> TRUE, ip |-> IPb, disk |-> 0],
     [id |-> <<"d">>, hostname |-> "node-d", ifs |-> FALSE, ip |-> <<>>, disk |-> 0]}

\* The node IDs the methods are called with; node-gone has no server.
NodeIds == {s.hostname : s \in NodeServers} \cup {"node-gone"}

NodeIPs == {s.ip : s \in {t \in NodeServers : t.ifs}}

ExportPrefix == <<"/", "m", "n", "t", "/", "d", "a", "t", "a", "\t">>
ExportSuffix == <<"(", "r", "w", ",", "s", "y", "n", "c", ",", "n", "o", "_", "s",
                  "u", "b", "t", "r", "e", "e", "_", "c", "h", "e", "c", "k", ")">>

\* The line AddNode appends: '/mnt/data\t<ip>(rw,sync,no_subtree_check)'.
ExportLine(ip) == ExportPrefix \o ip \o ExportSuffix

\* A basic regular expression made of literal characters and ".", which
\* stands for any character, matches a line when it matches at some offset.
RegexMatches(pattern, line) ==
    \E off \in 0..(Len(line) - Len(pattern)) :
        \A i \in 1..Len(pattern) :
            pattern[i] = "." \/ pattern[i] = line[off + i]

\* A deletion that removes only the lines equal to the pattern.
SedDeleteWholeLine(pattern, lines) ==
    SelectSeq(lines, LAMBDA l : l # pattern)

\* sed -i '/<pattern>/d' /etc/exports: drop every line the pattern matches.
SedDelete(pattern, lines) ==
    SelectSeq(lines, LAMBDA l : ~RegexMatches(pattern, l))

\* The storage server's state as one value.
World(i, e, sc) == [ipset |-> i, exports |-> e, scripts |-> sc]

MethodOut(panic, err, w) == [panic |-> panic, err |-> err, w |-> w]

AddNodeFaults == {"none", "lookup", "ssh", "sftp", "session", "script", "echo", "restart"}

\* NetworkStorage.AddNode(nodeID). The remote command is
\*   chmod +x <script> && <script> && echo '<line>' >> /etc/exports
\*     && systemctl restart nfs-kernel-server
\* and the script is "ipset add nodes <ip>", which exits non-zero when the
\* address is a member already. fault names the step the environment fails.
AddNode(n, nodeID, fault, srvs, w) ==
    LET look == getServerByHostname(srvs, nodeID, fault = "lookup")
        ip == look.server.ip
        \* CreateFile: the script is created or overwritten
        w1 == [w EXCEPT !.scripts = {p \in @ : p[1] # nodeID} \cup {<<nodeID, ip>>}]
        \* the script: ipset add nodes <ip>
        w2 == [w1 EXCEPT !.ipset = @ \cup {ip}]
        \* echo ... >> /etc/exports
        w3 == [w2 EXCEPT !.exports = Append(@, ExportLine(ip))]
    IN  IF NilDriver(n) THEN MethodOut(TRUE, FALSE, w)
        ELSE IF look.err \/ ~look.server.ifs THEN MethodOut(FALSE, TRUE, w)
        ELSE IF fault \in {"ssh", "sftp"} THEN MethodOut(FALSE, TRUE, w)
        ELSE IF fault = "session" THEN MethodOut(FALSE, TRUE, w1)
        ELSE IF fault = "script" \/ ip \in w.ipset THEN MethodOut(FALSE, TRUE, w1)
        ELSE IF fault = "echo" THEN MethodOut(FALSE, TRUE, w2)
        ELSE IF fault = "restart" THEN MethodOut(FALSE, TRUE, w3)
        ELSE MethodOut(FALSE, FALSE, w3)

RemoveNodeFaults == {"none", "lookup", "ssh", "session", "ipset", "sed"}

\* NetworkStorage.RemoveNode(nodeID). The remote command is
\*   rm -f <script> && ipset del nodes <ip> && sed -i '/<ip>/d' /etc/exports
\* and "ipset del" exits non-zero when the address is no member.
RemoveNode(n, nodeID, fault, srvs, w) ==
    LET look == getServerByHostname(srvs, nodeID, fault = "lookup")
        ip == look.server.ip
        \* rm -f <script>
        w1 == [w EXCEPT !.scripts = {p \in @ : p[1] # nodeID}]
        \* ipset del nodes <ip>
        w2 == [w1 EXCEPT !.ipset = @ \ {ip}]
        \* sed -i '/<ip>/d' /etc/exports
        w3 == [w2 EXCEPT !.exports = SedDelete(ip, @)]
    IN  IF NilDriver(n) THEN MethodOut(TRUE, FALSE, w)
        ELSE IF look.err \/ ~look.server.ifs THEN MethodOut(FALSE, TRUE, w)
        ELSE IF fault \in {"ssh", "session"} THEN MethodOut(FALSE, TRUE, w)
        ELSE IF fault = "ipset" \/ ip \notin w.ipset THEN MethodOut(FALSE, TRUE, w1)
        ELSE IF fault = "sed" THEN MethodOut(FALSE, TRUE, w2)
        ELSE MethodOut(FALSE, FALSE, w3)

\* The node IPs that have a line in /etc/exports, and those in the ipset.
ExportIPs == {ip \in NodeIPs : ExportLine(ip) \in Range(exports)}

(***************************************************************************)
(* The RPCs that decode a volume ID. Each is one call of the IaaS at most  *)
(* (the load) followed by one method of NetworkStorage, so each is one     *)
(* step. An outcome names the status code ("OK" for a response, "panic"    *)
(* for a nil dereference), the IaaS requests issued, and the state left.   *)
(***************************************************************************)
RpcOut(result, reqs, srvs, w) ==
    [result |-> result, reqs |-> reqs, confirmed |-> <<>>, servers |-> srvs, w |-> w]

\* The status a failed load gives in every RPC but DeleteVolume.
LoadFailure(ld) == IF ld.notFound THEN "NotFound" ELSE "Internal"

\* ControllerServer.DeleteVolume and DeleteVolumeNetworkStorage.
DeleteVolumeRun(volumeId, fault, srvs, w) ==
    LET dec == DecodeVolumeID(volumeId)
        ld == loadNetworkStorage(srvs, dec.id, fault)
        del == Delete(ld.ns, srvs, fault = "delete")
    IN  IF volumeId = <<>> THEN RpcOut("InvalidArgument", <<>>, srvs, w)
        ELSE IF dec.code # "" THEN RpcOut(dec.code, <<>>, srvs, w)
        ELSE IF dec.type = volumePrefixBlockStorage
        THEN RpcOut("Unimplemented", <<>>, srvs, w)
        ELSE IF ld.panic THEN RpcOut("panic", ld.reqs, srvs, w)
        ELSE IF ld.err
        THEN RpcOut(IF ld.notFound THEN "OK" ELSE "Internal", ld.reqs, srvs, w)
        ELSE IF del.panic THEN RpcOut("panic", ld.reqs, srvs, w)
        ELSE RpcOut(IF del.err THEN "Internal" ELSE "OK",
                    ld.reqs \o del.reqs, del.servers, w)

\* A ControllerPublishVolume that accepts a read-only publication.
ControllerPublishVolumeRunReadonly(volumeId, nodeId, readonly, fault, srvs, w) ==
    LET dec == DecodeVolumeID(volumeId)
        ld == loadNetworkStorage(srvs, dec.id, fault)
        m == AddNode(ld.ns, nodeId, fault, srvs, w)
    IN  IF nodeId = "" \/ volumeId = <<>>
        THEN RpcOut("InvalidArgument", <<>>, srvs, w)
        ELSE IF dec.code # "" THEN RpcOut(dec.code, <<>>, srvs, w)
        ELSE IF dec.type = volumePrefixBlockStorage
        THEN RpcOut("Unimplemented", <<>>, srvs, w)
        ELSE IF ld.panic THEN RpcOut("panic", ld.reqs, srvs, w)
        ELSE IF ld.err THEN RpcOut(LoadFailure(ld), ld.reqs, srvs, w)
        ELSE IF m.panic THEN RpcOut("panic", ld.reqs, srvs, w)
        ELSE RpcOut(IF m.err THEN "Internal" ELSE "OK",
                    ld.reqs \o <<<<"LIST", <<>>>>>>, srvs, m.w)

\* ControllerServer.ControllerPublishVolume; ns.Publish is AddNode.
ControllerPublishVolumeRun(volumeId, nodeId, readonly, fault, srvs, w) ==
    LET dec == DecodeVolumeID(volumeId)
        ld == loadNetworkStorage(srvs, dec.id, fault)
        m == AddNode(ld.ns, nodeId, fault, srvs, w)
    IN  IF nodeId = "" \/ volumeId = <<>> \/ readonly
        THEN RpcOut("InvalidArgument", <<>>, srvs, w)
        ELSE IF dec.code # "" THEN RpcOut(dec.code, <<>>, srvs, w)
        ELSE IF dec.type = volumePrefixBlockStorage
        THEN RpcOut("Unimplemented", <<>>, srvs, w)
        ELSE IF ld.panic THEN RpcOut("panic", ld.reqs, srvs, w)
        ELSE IF ld.err THEN RpcOut(LoadFailure(ld), ld.reqs, srvs, w)
        ELSE IF m.panic THEN RpcOut("panic", ld.reqs, srvs, w)
        ELSE RpcOut(IF m.err THEN "Internal" ELSE "OK",
                    ld.reqs \o <<<<"LIST", <<>>>>>>, srvs, m.w)

\* ControllerServer.ControllerUnpublishVolume; ns.Unpublish is RemoveNode.
ControllerUnpublishVolumeRun(volumeId, nodeId, fault, srvs, w) ==
    LET dec == DecodeVolumeID(volumeId)
        ld == loadNetworkStorage(srvs, dec.id, fault)
        m == RemoveNode(ld.ns, nodeId, fault, srvs, w)
    IN  IF nodeId = "" \/ volumeId = <<>>
        THEN RpcOut("InvalidArgument", <<>>, srvs, w)
        ELSE IF dec.code # "" THEN RpcOut(dec.code, <<>>, srvs, w)
        ELSE IF dec.type = volumePrefixBlockStorage
        THEN RpcOut("Unimplemented", <<>>, srvs, w)
        ELSE IF ld.panic THEN RpcOut("panic", ld.reqs, srvs, w)
        ELSE IF ld.err THEN RpcOut(LoadFailure(ld), ld.reqs, srvs, w)
        ELSE IF m.panic THEN RpcOut("panic", ld.reqs, srvs, w)
        ELSE RpcOut(IF m.err THEN "Internal" ELSE "OK",
                    ld.reqs \o <<<<"LIST", <<>>>>>>, srvs, m.w)

\* A ValidateVolumeCapabilities whose block-storage arm returns
\* Unimplemented, as the arms of the other RPCs do.
ValidateVolumeCapabilitiesRunNoBlockStorage(volumeId, caps, fault, srvs, w) ==
    LET dec == DecodeVolumeID(volumeId)
        ld == loadNetworkStorage(srvs, dec.id, fault)
        confirmedCaps == SelectSeq(caps, LAMBDA m : m = MULTI_NODE_MULTI_WRITER)
    IN  IF volumeId = <<>> \/ caps = <<>>
        THEN RpcOut("InvalidArgument", <<>>, srvs, w)
        ELSE IF dec.code # "" THEN RpcOut(dec.code, <<>>, srvs, w)
        ELSE IF dec.type = volumePrefixBlockStorage
        THEN RpcOut("Unimplemented", <<>>, srvs, w)
        ELSE IF ld.panic THEN RpcOut("panic", ld.reqs, srvs, w)
        ELSE IF ld.err THEN RpcOut(LoadFailure(ld), ld.reqs, srvs, w)
        ELSE IF Len(confirmedCaps) # Len(caps)
        THEN RpcOut("InvalidArgument", ld.reqs, srvs, w)
        ELSE [RpcOut("OK", ld.reqs, srvs, w) EXCEPT !.confirmed = confirmedCaps]

\* A ValidateVolumeCapabilities that confirms the supported part of the
\* requested list without comparing the lengths.
ValidateVolumeCapabilitiesRunIntersection(volumeId, caps, fault, srvs, w) ==
    LET dec == DecodeVolumeID(volumeId)
        ld == loadNetworkStorage(srvs, dec.id, fault)
        supportedCaps == IF dec.type = volumePrefixBlockStorage
                         THEN {SINGLE_NODE_WRITER} ELSE {MULTI_NODE_MULTI_WRITER}
        confirmedCaps == SelectSeq(caps, LAMBDA m : m \in supportedCaps)
        confirm(reqs) == [RpcOut("OK", reqs, srvs, w) EXCEPT !.confirmed = confirmedCaps]
    IN  IF volumeId = <<>> \/ caps = <<>>
        THEN RpcOut("InvalidArgument", <<>>, srvs, w)
        ELSE IF dec.code # "" THEN RpcOut(dec.code, <<>>, srvs, w)
        ELSE IF dec.type = volumePrefixBlockStorage THEN confirm(<<>>)
        ELSE IF ld.panic THEN RpcOut("panic", ld.reqs, srvs, w)
        ELSE IF ld.err THEN RpcOut(LoadFailure(ld), ld.reqs, srvs, w)
        ELSE confirm(ld.reqs)

\* ControllerServer.ValidateVolumeCapabilities: the requested modes that
\* the volume's type supports are confirmed; all must be.
ValidateVolumeCapabilitiesRun(volumeId, caps, fault, srvs, w) ==
    LET dec == DecodeVolumeID(volumeId)
        ld == loadNetworkStorage(srvs, dec.id, fault)
        supportedCaps == IF dec.type = volumePrefixBlockStorage
                         THEN {SINGLE_NODE_WRITER} ELSE {MULTI_NODE_MULTI_WRITER}
        confirmedCaps == SelectSeq(caps, LAMBDA m : m \in supportedCaps)
        confirm(reqs) == IF Len(confirmedCaps) # Len(caps)
                         THEN RpcOut("InvalidArgument", reqs, srvs, w)
                         ELSE [RpcOut("OK", reqs, srvs, w)
                                  EXCEPT !.confirmed = confirmedCaps]
    IN  IF volumeId = <<>> \/ caps = <<>>
        THEN RpcOut("InvalidArgument", <<>>, srvs, w)
        ELSE IF dec.code # "" THEN RpcOut(dec.code, <<>>, srvs, w)
        ELSE IF dec.type = volumePrefixBlockStorage THEN confirm(<<>>)
        ELSE IF ld.panic THEN RpcOut("panic", ld.reqs, srvs, w)
        ELSE IF ld.err THEN RpcOut(LoadFailure(ld), ld.reqs, srvs, w)
        ELSE confirm(ld.reqs)

\* NodeServer.NodeStageVolume and NodeUnstageVolume: validate, decode,
\* load, then mount or unmount the staging path (fault "mount": it fails).
\* hasCapability tells whether the stage request carries a capability; the
\* unstage request has no such field and passes TRUE.
NodeStageOrUnstageRun(volumeId, path, hasCapability, fault, srvs, w) ==
    LET dec == DecodeVolumeID(volumeId)
        ld == loadNetworkStorage(srvs, dec.id, fault)
    IN  IF volumeId = <<>> \/ path = "" \/ ~hasCapability
        THEN RpcOut("InvalidArgument", <<>>, srvs, w)
        ELSE IF dec.code # "" THEN RpcOut(dec.code, <<>>, srvs, w)
        ELSE IF dec.type = volumePrefixBlockStorage
        THEN RpcOut("Unimplemented", <<>>, srvs, w)
        ELSE IF ld.panic THEN RpcOut("panic", ld.reqs, srvs, w)
        ELSE IF ld.err THEN RpcOut(LoadFailure(ld), ld.reqs, srvs, w)
        ELSE RpcOut(IF fault = "mount" THEN "Internal" ELSE "OK", ld.reqs, srvs, w)

\* An identifier no server has.
MissingId == <<"b", "1">>

\* The volume IDs the RPCs are called with: those of the servers, one of a
\* server that does not exist, and malformed ones.
RpcVolumeIds ==
    {EncodeVolumeID(volumePrefixNetworkStorage, id) : id \in ServerIds \cup {MissingId}}
    \cup {<<>>, <<"n", "s", "-">>, <<"-", "1">>, <<"n", "s", "1">>,
          <<"n", "s", "-", "1", "-", "1">>, <<"b", "s", "-", "1">>,
          <<"b", "s", "-">>, <<"x", "s", "-", "1">>}

RpcNodeIds == {"", "node-a"}

RpcFaults == {"none", "transport", "api", "decode"}

\* The failures of the POST of createNetworkStorage: the request fails
\* (whatever the reason, the response is not looked at) or the body cannot
\* be decoded.
PostFaults == {"none", "api", "decode"}

(***************************************************************************)
(* CreateVolume. The checks of the request are one step; then              *)
(* createNetworkStorage runs step by step, since two calls may interleave. *)
(***************************************************************************)
\* A CreateVolume that looks only for a multi-node mode among the requested
\* capabilities and never compares them with the driver's list.
CreateVolumeCheckAnyMultiNode(name, caps, contentSource, required, limit) ==
    LET createNetworkStorage ==
            \E i \in 1..Len(caps) :
                caps[i] \in {MULTI_NODE_MULTI_WRITER, MULTI_NODE_READER_ONLY,
                             "MULTI_NODE_SINGLE_WRITER"}
        parsed == parseCapacity(required, limit)
    IN  IF name = "" \/ caps = <<>> \/ contentSource
        THEN [code |-> "InvalidArgument", size |-> 0]
        ELSE IF parsed.err # "" THEN [code |-> "OutOfRange", size |-> 0]
        ELSE IF createNetworkStorage THEN [code |-> "", size |-> parsed.capacity]
        ELSE [code |-> "Unimplemented", size |-> 0]

\* ControllerServer.CreateVolume up to the call of CreateVolumeNetworkStorage:
\* code is "" when the request goes on to createNetworkStorage.
CreateVolumeCheck(name, caps, contentSource, required, limit) ==
    LET unsupported == \E i \in 1..Len(caps) : caps[i] \notin DriverVolumeCapabilities
        createNetworkStorage ==
            \E i \in 1..Len(caps) :
                /\ caps[i] \in DriverVolumeCapabilities
                /\ caps[i] \in {MULTI_NODE_MULTI_WRITER, MULTI_NODE_READER_ONLY,
                               "MULTI_NODE_SINGLE_WRITER"}
        parsed == parseCapacity(required, limit)
    IN  IF name = "" \/ caps = <<>> \/ contentSource
        THEN [code |-> "InvalidArgument", size |-> 0]
        ELSE IF unsupported THEN [code |-> "InvalidArgument", size |-> 0]
        ELSE IF parsed.err # "" THEN [code |-> "OutOfRange", size |-> 0]
        ELSE IF createNetworkStorage THEN [code |-> "", size |-> parsed.capacity]
        ELSE [code |-> "Unimplemented", size |-> 0]

NoCall == [name |-> "", request |-> NoRequest, size |-> 0, reqs |-> <<>>, posted |-> <<>>,
           found |-> FALSE, fault |-> FALSE, ifs |-> FALSE, ns |-> NoNS]

\* The response of a CreateVolume call that returns with the status result.
CreateResponse(c, result) ==
    [NoResp EXCEPT !.kind = "CreateVolume", !.name = cv[c].name, !.result = result,
                   !.request = cv[c].request, !.reqs = cv[c].reqs, !.posted = cv[c].posted,
                   !.found = cv[c].found, !.fault = cv[c].fault]

\* The call returns: its response is the last one, its slot is free again.
Return(c, response) ==
    /\ resp' = response
    /\ pc' = [pc EXCEPT ![c] = "idle"]
    /\ cv' = [cv EXCEPT ![c] = NoCall]

\* A goroutine panics: the process ends, and with it every call in flight.
Crash(response) ==
    /\ resp' = response
    /\ pc' = [c \in Calls |-> "idle"]
    /\ cv' = [c \in Calls |-> NoCall]

StartCreate(c) ==
    /\ pc[c] = "idle"
    /\ \E name \in Names \cup {""}, caps \in CapLists, src \in BOOLEAN, cr \in CreateRanges :
        LET chk == CreateVolumeCheck(name, caps, src, cr[1], cr[2])
            request == [NoRequest EXCEPT !.caps = caps, !.contentSource = src,
                                         !.required = cr[1], !.limit = cr[2]]
        IN  IF chk.code # ""
            THEN /\ resp' = [NoResp EXCEPT !.kind = "CreateVolume", !.name = name,
                                           !.request = request, !.result = chk.code]
                 /\ UNCHANGED <<pc, cv>>
            ELSE /\ pc' = [pc EXCEPT ![c] = "lookup"]
                 /\ cv' = [cv EXCEPT ![c] = [NoCall EXCEPT !.name = name,
                                                          !.request = request,
                                                          !.size = chk.size]]
                 /\ UNCHANGED resp
    /\ UNCHANGED <<waiter, fn, servers, nextId, unique, staged, ns, ipset, exports, scripts,
                   granted, faulted>>

\* createNetworkStorage that goes on to the POST whatever the lookup found.
LookupSaysExistsNever(look) == FALSE

\* createNetworkStorage, lines 225-229: the server exists when the lookup
\* returned no error.
LookupSaysExists(look) == ~look.err

\* createNetworkStorage, the existence check.
CreateLookup(c) ==
    /\ pc[c] = "lookup"
    /\ \E fault \in BOOLEAN :
        LET look == getServerByHostname(servers, Hostname(cv[c].name), fault)
            seen == [cv[c] EXCEPT !.reqs = Append(@, <<"LIST", <<>>>>),
                                  !.found = ~look.err,
                                  !.fault = @ \/ fault]
        IN  /\ faulted' = (faulted \/ fault)
            /\ IF LookupSaysExists(look)
               THEN Return(c, [CreateResponse(c, "AlreadyExists") EXCEPT
                                   !.reqs = seen.reqs, !.found = seen.found])
               ELSE /\ pc' = [pc EXCEPT ![c] = "post"]
                    /\ cv' = [cv EXCEPT ![c] = seen]
                    /\ UNCHANGED resp
    /\ UNCHANGED <<waiter, fn, servers, nextId, unique, staged, ns, ipset, exports, scripts,
                   granted>>

\* createNetworkStorage, the POST of the server and the decoding of the
\* answer. The IaaS refuses when the request fails or when it keeps
\* hostnames unique and the hostname is taken; it has room for MaxServers
\* servers.
CreatePost(c) ==
    /\ pc[c] = "post"
    /\ \E fault \in PostFaults, ifs \in BOOLEAN :
        LET hostname == Hostname(cv[c].name)
            refused == \/ fault = "api"
                       \/ unique /\ \E s \in servers : s.hostname = hostname
            id == ServerIdOf(nextId + 1)
            server == [id |-> id, hostname |-> hostname, ifs |-> ifs,
                       ip |-> IF ifs THEN StorageIP ELSE <<>>, disk |-> 0]
            sent == [cv[c] EXCEPT !.reqs = Append(@, <<"POST", <<>>>>),
                                  !.fault = @ \/ fault # "none"]
        IN  /\ faulted' = (faulted \/ fault # "none")
            /\ IF refused
               THEN /\ Return(c, [CreateResponse(c, "Internal") EXCEPT
                                      !.reqs = sent.reqs, !.fault = sent.fault])
                    /\ UNCHANGED <<servers, nextId>>
               ELSE /\ nextId < MaxServers
                    /\ servers' = servers \cup {server}
                    /\ nextId' = nextId + 1
                    /\ IF fault = "decode"
                       THEN Return(c, [CreateResponse(c, "Internal") EXCEPT
                                           !.reqs = sent.reqs, !.fault = TRUE,
                                           !.posted = id])
                       ELSE /\ pc' = [pc EXCEPT ![c] = "created"]
                            /\ cv' = [cv EXCEPT ![c] =
                                        [sent EXCEPT !.posted = id, !.ifs = ifs,
                                                     !.ns = [driver |-> BuiltDriver(TheDriver),
                                                             ID |-> id, IP |-> <<>>,
                                                             Size |-> cv[c].size]]]
                            /\ UNCHANGED resp
    /\ UNCHANGED <<waiter, fn, unique, staged, ns, ipset, exports, scripts, granted>>

\* createNetworkStorage, lines 271-293: a server without network interfaces
\* is deleted and the call fails; otherwise the call waits for the
\* transactions of the server to end.
CreateCheckInterfaces(c) ==
    /\ pc[c] = "created"
    /\ LET del == Delete(cv[c].ns, servers, FALSE)
       IN  IF ~cv[c].ifs
           THEN IF del.panic
                THEN Crash(CreateResponse(c, "panic")) /\ UNCHANGED servers
                ELSE /\ Return(c, [CreateResponse(c, "Internal") EXCEPT
                                       !.reqs = cv[c].reqs \o del.reqs])
                     /\ servers' = del.servers
           ELSE IF NilDriver(cv[c].ns)
                THEN Crash(CreateResponse(c, "panic")) /\ UNCHANGED servers
                ELSE /\ pc' = [pc EXCEPT ![c] = "wait"]
                     /\ cv' = [cv EXCEPT ![c].ns.IP = StorageIP]
                     /\ UNCHANGED <<resp, servers>>
    /\ UNCHANGED <<waiter, fn, nextId, unique, staged, ns, ipset, exports, scripts, granted, faulted>>

(***************************************************************************)
(* The driver process serving CreateVolume calls, MaxCalls of them at a    *)
(* time, against an IaaS that starts without storage servers. The IaaS     *)
(* either keeps hostnames unique (unique) or does not.                     *)
(***************************************************************************)
(***************************************************************************)
(* NetworkStorage.Wait. Time is the whole seconds since the call began     *)
(* (the code polls when int64(timeElapsed.Seconds()) % timeDelay = 0).     *)
(***************************************************************************)
timeDelay == 10
timeMax == 600

\* The most whole seconds that one pass of the loop lets go by, and the
\* most entries of a server log.
MaxStall == 2
MaxLog == 2

LogStatuses == {"pending", "running", "done", "failed"}

\* The bodies the logs endpoint may answer with.
LogLists == SeqsUpTo(LogStatuses, MaxLog)

\* Wait, the loop over logsList: true when an entry is pending or running.
LogBusy(logsList) ==
    \E i \in 1..Len(logsList) : logsList[i] \in {"pending", "running"}

\* Wait, the condition of the poll inside the loop.
PollDue(timeElapsed) == timeElapsed % timeDelay = 0

\* Wait, after the loop: what the value of wait makes it return.
WaitReturn(wait) == IF wait THEN "Timeout" ELSE "OK"

\* No call of Wait is in progress.
NoWait == [pc |-> "idle", timeElapsed |-> 0, wait |-> TRUE, polled |-> FALSE,
           logsList |-> <<>>, result |-> ""]

NoFn == [op |-> "none", in |-> <<>>, out |-> <<>>]

Init ==
    /\ fn = NoFn
    /\ servers = {}
    /\ nextId = 0
    /\ unique \in BOOLEAN
    /\ pc = [c \in Calls |-> "idle"]
    /\ cv = [c \in Calls |-> NoCall]
    /\ resp = NoResp
    /\ staged = {}
    /\ ns = NoNS
    /\ ipset = {}
    /\ exports = <<>>
    /\ scripts = {}
    /\ granted = {}
    /\ faulted = FALSE
    /\ waiter = NoWait

Next ==
    \/ \E c \in Calls : StartCreate(c)
    \/ \E c \in Calls : CreateLookup(c)
    \/ \E c \in Calls : CreatePost(c)
    \/ \E c \in Calls : CreateCheckInterfaces(c)

Spec == Init /\ [][Next]_vars

(***************************************************************************)
(* The RPCs that decode a volume ID, as steps of the driver process,       *)
(* against an IaaS that holds the consumer nodes and some storage servers. *)
(***************************************************************************)
\* The n-th storage server of the account; every second one came up
\* without a network interface.
StorageServer(n) ==
    [id |-> ServerIdOf(n),
     hostname |-> Hostname(IF n % 2 = 1 THEN "pvc-1" ELSE "pvc-2"),
     ifs |-> n % 2 = 1,
     ip |-> IF n % 2 = 1 THEN StorageIP ELSE <<>>,
     disk |-> 0]

StorageServers == {StorageServer(n) : n \in 1..MaxServers}

\* What an RPC leaves behind: its response, and the state its outcome names.
\* A panic ends the process and the calls in flight.
RpcDoneWith(kind, volumeId, nodeId, fault, out, request) ==
    LET response == [NoResp EXCEPT !.kind = kind, !.arg = volumeId, !.node = nodeId,
                                   !.request = request,
                                   !.result = out.result, !.reqs = out.reqs,
                                   !.confirmed = out.confirmed,
                                   !.fault = fault # "none", !.cause = fault]
    IN  /\ IF out.result = "panic"
           THEN Crash(response)
           ELSE resp' = response /\ UNCHANGED <<pc, cv>>
        /\ servers' = out.servers
        /\ ipset' = out.w.ipset
        /\ exports' = out.w.exports
        /\ scripts' = out.w.scripts
        /\ UNCHANGED <<waiter, fn, nextId, unique, ns, granted, faulted>>

RpcDone(kind, volumeId, nodeId, fault, out) ==
    RpcDoneWith(kind, volumeId, nodeId, fault, out, NoRequest)

TheWorld == World(ipset, exports, scripts)

DeleteVolume ==
    \E volumeId \in RpcVolumeIds, fault \in RpcFaults \cup {"delete"} :
        /\ RpcDone("DeleteVolume", volumeId, "", fault,
                   DeleteVolumeRun(volumeId, fault, servers, TheWorld))
        /\ UNCHANGED staged

ControllerPublishVolume ==
    \E volumeId \in RpcVolumeIds, nodeId \in RpcNodeIds, readonly \in BOOLEAN,
       fault \in RpcFaults :
        /\ RpcDoneWith("ControllerPublishVolume", volumeId, nodeId, fault,
                       ControllerPublishVolumeRun(volumeId, nodeId, readonly, fault,
                                                  servers, TheWorld),
                       [NoRequest EXCEPT !.readonly = readonly])
        /\ UNCHANGED staged

ControllerUnpublishVolume ==
    \E volumeId \in RpcVolumeIds, nodeId \in RpcNodeIds, fault \in RpcFaults :
        /\ RpcDone("ControllerUnpublishVolume", volumeId, nodeId, fault,
                   ControllerUnpublishVolumeRun(volumeId, nodeId, fault, servers, TheWorld))
        /\ UNCHANGED staged

ValidateVolumeCapabilities ==
    \E volumeId \in RpcVolumeIds, caps \in CapLists, fault \in RpcFaults :
        /\ RpcDoneWith("ValidateVolumeCapabilities", volumeId, "", fault,
                       ValidateVolumeCapabilitiesRun(volumeId, caps, fault, servers, TheWorld),
                       [NoRequest EXCEPT !.caps = caps])
        /\ UNCHANGED staged

StagingPaths == {"", "/staging"}

NodeStageVolume ==
    \E volumeId \in RpcVolumeIds, path \in StagingPaths, hasCapability \in BOOLEAN,
       fault \in RpcFaults \cup {"mount"} :
        LET out == NodeStageOrUnstageRun(volumeId, path, hasCapability, fault,
                                         servers, TheWorld)
        IN  /\ RpcDoneWith("NodeStageVolume", volumeId, "", fault, out,
                           [NoRequest EXCEPT !.stagingTargetPath = path,
                                             !.hasCapability = hasCapability])
            /\ staged' = IF out.result = "OK" THEN staged \cup {path} ELSE staged

NodeUnstageVolume ==
    \E volumeId \in RpcVolumeIds, path \in StagingPaths, fault \in RpcFaults \cup {"mount"} :
        LET out == NodeStageOrUnstageRun(volumeId, path, TRUE, fault, servers, TheWorld)
        IN  /\ RpcDoneWith("NodeUnstageVolume", volumeId, "", fault, out,
                           [NoRequest EXCEPT !.stagingTargetPath = path])
            /\ staged' = IF out.result = "OK" THEN staged \ {path} ELSE staged

InitRPC ==
    /\ fn = NoFn
    /\ servers \in {NodeServers \cup st : st \in SUBSET StorageServers}
    /\ nextId = 0
    /\ unique = FALSE
    /\ pc = [c \in Calls |-> "idle"]
    /\ cv = [c \in Calls |-> NoCall]
    /\ resp = NoResp
    /\ staged = {}
    /\ ns = NoNS
    /\ ipset = {}
    /\ exports = <<>>
    /\ scripts = {}
    /\ granted = {}
    /\ faulted = FALSE
    /\ waiter = NoWait

NextRPC ==
    \/ DeleteVolume
    \/ ControllerPublishVolume
    \/ ControllerUnpublishVolume
    \/ ValidateVolumeCapabilities
    \/ NodeStageVolume
    \/ NodeUnstageVolume

SpecRPC == InitRPC /\ [][NextRPC]_vars

(***************************************************************************)
(* AddNode and RemoveNode called one after the other on one                *)
(* NetworkStorage, with and without a Driver behind it. granted holds the  *)
(* nodes an AddNode has succeeded for, faulted tells whether the           *)
(* environment has failed a step of some call.                             *)
(***************************************************************************)
NodeIP(nodeID) == (CHOOSE s \in NodeServers : s.hostname = nodeID).ip

Outcome(m) == IF m.panic THEN "panic" ELSE IF m.err THEN "error" ELSE "OK"

\* A call of a method leaves the storage server as the method left it.
MethodDone(op, nodeID, fault, m) ==
    /\ fn' = [op |-> op, in |-> nodeID, out |-> Outcome(m)]
    /\ ipset' = m.w.ipset
    /\ exports' = m.w.exports
    /\ scripts' = m.w.scripts
    /\ faulted' = (faulted \/ fault # "none")
    /\ UNCHANGED <<waiter, servers, nextId, unique, pc, cv, resp, staged, ns>>

CallAddNode ==
    \E nodeID \in NodeIds, fault \in AddNodeFaults :
        LET m == AddNode(ns, nodeID, fault, servers, TheWorld)
        IN  /\ Len(exports) < MaxLines
            /\ MethodDone("AddNode", nodeID, fault, m)
            /\ granted' = IF Outcome(m) = "OK" THEN granted \cup {nodeID} ELSE granted

CallRemoveNode ==
    \E nodeID \in NodeIds, fault \in RemoveNodeFaults :
        LET m == RemoveNode(ns, nodeID, fault, servers, TheWorld)
        IN  /\ MethodDone("RemoveNode", nodeID, fault, m)
            /\ UNCHANGED granted

InitNS ==
    /\ fn = NoFn
    /\ servers = NodeServers
    /\ nextId = 0
    /\ unique = FALSE
    /\ pc = [c \in Calls |-> "idle"]
    /\ cv = [c \in Calls |-> NoCall]
    /\ resp = NoResp
    /\ staged = {}
    /\ ns \in {[driver |-> d, ID |-> ServerIdOf(1), IP |-> StorageIP, Size |-> 16] :
                  d \in {NoDriver, TheDriver}}
    /\ ipset = {}
    /\ exports = <<>>
    /\ scripts = {}
    /\ granted = {}
    /\ faulted = FALSE
    /\ waiter = NoWait

NextNS ==
    \/ CallAddNode
    \/ CallRemoveNode

SpecNS == InitNS /\ [][NextNS]_vars

(***************************************************************************)
(* The capacity parser applied to a capacity range, through the checks of  *)
(* CreateVolume that lead to it.                                           *)
(***************************************************************************)
ParseCapacity ==
    /\ fn = NoFn
    /\ \E required \in CapValues, limit \in CapValues :
        fn' = [op |-> "parseCapacity", in |-> <<required, limit>>,
               out |-> CreateVolumeCheck("pvc-1", <<MULTI_NODE_MULTI_WRITER>>, FALSE,
                                         required, limit)]
    /\ UNCHANGED <<waiter, servers, nextId, unique, pc, cv, resp, staged, ns, ipset, exports,
                   scripts, granted, faulted>>

\* Nothing has been parsed; the driver and the IaaS play no part.
InitCapacity ==
    /\ fn = NoFn
    /\ servers = {}
    /\ nextId = 0
    /\ unique = FALSE
    /\ pc = [c \in Calls |-> "idle"]
    /\ cv = [c \in Calls |-> NoCall]
    /\ resp = NoResp
    /\ staged = {}
    /\ ns = NoNS
    /\ ipset = {}
    /\ exports = <<>>
    /\ scripts = {}
    /\ granted = {}
    /\ faulted = FALSE
    /\ waiter = NoWait

SpecCapacity == InitCapacity /\ [][ParseCapacity]_vars

(***************************************************************************)
(* The volume-ID codec applied to an identifier or to a string.            *)
(***************************************************************************)
Encode ==
    /\ fn = NoFn
    /\ \E type \in {volumePrefixBlockStorage, volumePrefixNetworkStorage},
          id \in ValidCloudIds :
        fn' = [op |-> "encode", in |-> <<type, id>>, out |-> EncodeVolumeID(type, id)]
    /\ UNCHANGED <<waiter, servers, nextId, unique, pc, cv, resp, staged, ns, ipset, exports,
                   scripts, granted, faulted>>

Decode ==
    /\ fn = NoFn
    /\ \E volumeId \in VolumeIdStrings :
        fn' = [op |-> "decode", in |-> volumeId, out |-> DecodeVolumeID(volumeId)]
    /\ UNCHANGED <<waiter, servers, nextId, unique, pc, cv, resp, staged, ns, ipset, exports,
                   scripts, granted, faulted>>

NextVolumeID ==
    \/ Encode
    \/ Decode

SpecVolumeID == InitCapacity /\ [][NextVolumeID]_vars

(***************************************************************************)
(* Properties.                                                             *)
(***************************************************************************)
CreateFinished == resp.kind = "CreateVolume"

\* C1: for CreateVolume calls with the same name, under every interleaving
\* of their steps and with an IaaS that answers every request, at most one
\* server with the derived hostname comes into being, and a call that
\* reached createNetworkStorage and created no server returns AlreadyExists.
C1_OneServerPerHostname ==
    ~faulted =>
        /\ \A s, t \in servers : s.hostname = t.hostname => s.id = t.id
        /\ (CreateFinished /\ resp.reqs # <<>> /\ resp.posted = <<>>)
               => resp.result = "AlreadyExists"

\* C2: a CreateVolume call that ends has returned a volume or an error;
\* there is no third outcome.
C2_VolumeOrError ==
    CreateFinished =>
        \/ resp.result = "OK" /\ resp.volume.id # <<>>
        \/ resp.result \in ErrorCodes

\* C3: a CreateVolume call that returns an error after its POST created a
\* server has issued a DELETE for that server before returning.
C3_FailureCompensated ==
    (CreateFinished /\ resp.posted # <<>> /\ resp.result \in ErrorCodes)
        => <<"DELETE", resp.posted>> \in Range(resp.reqs)

\* C4: after any sequence of AddNode and RemoveNode calls made one after
\* the other on one volume, none of them failed by the environment, the
\* node IPs with a line in /etc/exports are the IPs in the nodes ipset.
C4_ExportsEqualIpset ==
    ~faulted => ExportIPs = ipset

\* C5: DeleteVolume of "ns-<id>" succeeds whether the server exists or not,
\* when the IaaS answers every request.
C5_DeleteVolumeSucceeds ==
    (/\ resp.kind = "DeleteVolume"
     /\ ~resp.fault
     /\ DecodeVolumeID(resp.arg).type = volumePrefixNetworkStorage
     /\ DecodeVolumeID(resp.arg).id # <<>>)
        => resp.result = "OK"

\* C6: after a successful publish of a volume to a node (AddNode) the
\* node's IP is in the nodes ipset and has a line in /etc/exports; after a
\* successful unpublish (RemoveNode) it is in neither.
C6_PublishThenUnpublish ==
    /\ (fn.op = "AddNode" /\ fn.out = "OK")
           => /\ NodeIP(fn.in) \in ipset
              /\ ExportLine(NodeIP(fn.in)) \in Range(exports)
    /\ (fn.op = "RemoveNode" /\ fn.out = "OK")
           => /\ NodeIP(fn.in) \notin ipset
              /\ ExportLine(NodeIP(fn.in)) \notin Range(exports)

\* The unpublish of a node that was published before has succeeded, in a
\* run without failures of the environment.
C6_Witness ==
    /\ fn.op = "RemoveNode"
    /\ fn.out = "OK"
    /\ fn.in \in granted
    /\ ~faulted

Dashes(s) == Cardinality({i \in 1..Len(s) : s[i] = "-"})

\* C8: decoding the encoding of (type, id) gives (type, id) back, encoding
\* a decoded volume ID gives the string back, and a string with more than
\* one "-" does not decode.
C8_CodecInverse ==
    /\ fn.op = "encode"
           => DecodeVolumeID(fn.out) = [code |-> "", type |-> fn.in[1], id |-> fn.in[2]]
    /\ (fn.op = "decode" /\ fn.out.code = "")
           => EncodeVolumeID(fn.out.type, fn.out.id) = fn.in
    /\ (fn.op = "decode" /\ Dashes(fn.in) > 1)
           => fn.out.code = "InvalidArgument"

C8_Witness ==
    /\ fn.op = "decode"
    /\ fn.in = <<"n", "s", "-", "a", "b", "c", "-", "d", "e", "f">>
    /\ fn.out.code = "InvalidArgument"

\* Exactly two non-empty parts around a single "-".
TwoNonEmptyParts(s) ==
    /\ Dashes(s) = 1
    /\ s[1] # "-"
    /\ s[Len(s)] # "-"

\* C9: every RPC that decodes a volume ID returns InvalidArgument, without
\* a request to the IaaS, unless the ID is two non-empty parts around one "-".
C9_MalformedRejected ==
    (resp.kind # "none" /\ ~TwoNonEmptyParts(resp.arg))
        => /\ resp.result = "InvalidArgument"
           /\ resp.reqs = <<>>

\* The conditions under which a capacity range is out of range.
OutOfRange(required, limit) ==
    \/ Positive(required) /\ Less(required, minimumVolumeCapacityInBytes)
    \/ Positive(limit) /\ Less(limit, minimumVolumeCapacityInBytes)
    \/ Less(maximumVolumeCapacityInBytes, required)
    \/ Less(maximumVolumeCapacityInBytes, limit)
    \/ Positive(required) /\ Positive(limit) /\ Less(limit, required)

\* C10: the capacity parser answers OutOfRange exactly when required is
\* defined and below 1 GiB, or limit is defined and below 1 GiB, or either
\* is above 8 TiB, or both are defined and required > limit; every other
\* range is accepted.
C10_OutOfRangeExactly ==
    fn.op = "parseCapacity"
        => /\ fn.out.code = "OutOfRange" <=> OutOfRange(fn.in[1], fn.in[2])
           /\ fn.out.code \in {"OutOfRange", ""}

\* A limit below the minimum, required left undefined, has been refused.
C10_Witness ==
    /\ fn.op = "parseCapacity"
    /\ ~Positive(fn.in[1])
    /\ Positive(fn.in[2])
    /\ Less(fn.in[2], minimumVolumeCapacityInBytes)
    /\ fn.out.code = "OutOfRange"

\* The number of whole GiB that hold the larger of two byte counts.
GiBToHold(required, limit) ==
    LET larger == IF Less(required, limit) THEN limit ELSE required
    IN  IF larger.b = 0 THEN larger.g ELSE larger.g + 1

\* C11: for every accepted capacity range the size chosen is
\* ceil(max(required, limit) / 1 GiB), an undefined bound counting as 0,
\* and 16 GiB when both bounds are undefined.
C11_ChosenSize ==
    (fn.op = "parseCapacity" /\ fn.out.code = "")
        => fn.out.size = IF ~Positive(fn.in[1]) /\ ~Positive(fn.in[2])
                         THEN 16
                         ELSE GiBToHold(fn.in[1], fn.in[2])

\* A range whose larger bound is no whole number of GiB has been accepted
\* and rounded up.
C11_Witness ==
    /\ fn.op = "parseCapacity"
    /\ fn.out.code = ""
    /\ fn.in[2].b > 0
    /\ Less(fn.in[1], fn.in[2])
    /\ fn.out.size = fn.in[2].g + 1

ParsedAgain ==
    CreateVolumeCheck("pvc-1", <<MULTI_NODE_MULTI_WRITER>>, FALSE,
                      Bytes(fn.out.size, 0), Bytes(0, 0))

\* C13: for every accepted capacity range, the range that requires the
\* chosen size in bytes (size x 1 GiB, no limit) is accepted and gives the
\* same size.
C13_ParseIdempotent ==
    (fn.op = "parseCapacity" /\ fn.out.code = "")
        => /\ ParsedAgain.code = ""
           /\ ParsedAgain.size = fn.out.size

\* The largest size, reached by rounding up, has been parsed again.
C13_Witness ==
    /\ fn.op = "parseCapacity"
    /\ fn.in[1] = Bytes(8191, GiB - 1)
    /\ fn.out.code = ""
    /\ fn.out.size = 8192
    /\ ParsedAgain.size = 8192

(***************************************************************************)
(* The package resolver, applied to the memory and the processors of the   *)
(* configuration as NewDriver does.                                        *)
(***************************************************************************)
MaxProcessors == 14

serverPackageIDs ==
    <<"ac949a1cb4731d", "89833c1dfa7010", "0469d586374e76", "e991abd8ef15c7",
      "489b7df86d4b76", "9559dbb4b71c45", "ebf313a9994c1e", "86fa7f6209ba2a",
      "25848db6009838", "115f1d99e8e9e4">>

\* getPackageID, the memory ladder; -1 when no package has that much.
memoryPackageIndex(memory) ==
    IF memory <= 512 THEN 0
    ELSE IF memory <= 1024 THEN 1
    ELSE IF memory <= 2048 THEN 2
    ELSE IF memory <= 4096 THEN 3
    ELSE IF memory <= 6144 THEN 4
    ELSE IF memory <= 8192 THEN 5
    ELSE IF memory <= 16384 THEN 6
    ELSE IF memory <= 32768 THEN 7
    ELSE IF memory <= 65536 THEN 8
    ELSE IF memory <= 98304 THEN 9
    ELSE -1

\* A processor ladder with two rungs exchanged.
processorsPackageIndexSwapped(processors) ==
    IF processors <= 1 THEN 0
    ELSE IF processors <= 2 THEN 4
    ELSE IF processors <= 3 THEN 3
    ELSE IF processors <= 4 THEN 5
    ELSE IF processors <= 6 THEN 6
    ELSE IF processors <= 8 THEN 7
    ELSE IF processors <= 10 THEN 8
    ELSE IF processors <= 12 THEN 9
    ELSE -1

\* getPackageID, the processor ladder; -1 when no package has that many.
processorsPackageIndex(processors) ==
    IF processors <= 1 THEN 0
    ELSE IF processors <= 2 THEN 3
    ELSE IF processors <= 3 THEN 4
    ELSE IF processors <= 4 THEN 5
    ELSE IF processors <= 6 THEN 6
    ELSE IF processors <= 8 THEN 7
    ELSE IF processors <= 10 THEN 8
    ELSE IF processors <= 12 THEN 9
    ELSE -1

\* The smaller of the two indices taken instead of the greater.
packageIndexMin(memoryIndex, processorsIndex) ==
    IF memoryIndex < processorsIndex THEN memoryIndex ELSE processorsIndex

\* int(math.Max(float64(memoryPackageIndex), float64(processorsPackageIndex)))
packageIndex(memoryIndex, processorsIndex) ==
    IF memoryIndex < processorsIndex THEN processorsIndex ELSE memoryIndex

NoPackage == [err |-> "", index |-> -1, id |-> ""]

\* getPackageID(memory, processors): the package, or an error (err # "").
getPackageID(memory, processors) ==
    LET mi == memoryPackageIndex(memory)
        pi == processorsPackageIndex(processors)
        index == packageIndex(mi, pi)
    IN  IF mi = -1 THEN [NoPackage EXCEPT !.err = "memory"]
        ELSE IF pi = -1 THEN [NoPackage EXCEPT !.err = "processors"]
        ELSE IF index < 0 \/ index >= Len(serverPackageIDs)
        THEN [NoPackage EXCEPT !.err = "index"]
        ELSE [err |-> "", index |-> index, id |-> serverPackageIDs[index + 1]]

\* The memory sizes (MB) the resolver is tried on: the rungs of the ladder,
\* the sizes just above them, and sizes off both ends.
MemoryValues ==
    LET rungs == {512, 1024, 2048, 4096, 6144, 8192, 16384, 32768, 65536, 98304}
    IN  {0, 1, 100000} \cup rungs \cup {r + 1 : r \in rungs}

ProcessorValues == 0..MaxProcessors

GetPackageID ==
    /\ fn = NoFn
    /\ \E memory \in MemoryValues, processors \in ProcessorValues :
        fn' = [op |-> "getPackageID", in |-> <<memory, processors>>,
               out |-> getPackageID(memory, processors)]
    /\ UNCHANGED <<waiter, servers, nextId, unique, pc, cv, resp, staged, ns, ipset, exports,
                   scripts, granted, faulted>>

SpecPackage == InitCapacity /\ [][GetPackageID]_vars

\* The index the bucket tables give: the greater of the index of the first
\* memory bucket and of the first processor bucket that hold the value.
MemoryBuckets ==
    <<512, 1024, 2048, 4096, 6144, 8192, 16384, 32768, 65536, 98304>>

MemoryBucketIdx == <<0, 1, 2, 3, 4, 5, 6, 7, 8, 9>>

ProcessorBuckets == <<1, 2, 3, 4, 6, 8, 10, 12>>

ProcessorBucketIdx == <<0, 3, 4, 5, 6, 7, 8, 9>>

FirstBucket(buckets, v) ==
    CHOOSE i \in 1..Len(buckets) :
        v <= buckets[i] /\ \A j \in 1..(i - 1) : v > buckets[j]

InBuckets(memory, processors) ==
    memory <= 98304 /\ processors <= 12

TableIndex(memory, processors) ==
    LET mi == MemoryBucketIdx[FirstBucket(MemoryBuckets, memory)]
        pi == ProcessorBucketIdx[FirstBucket(ProcessorBuckets, processors)]
    IN  IF mi > pi THEN mi ELSE pi

\* C14: for all (memory, processors) within the bucket tables getPackageID
\* returns an entry of the 10-entry package table, and the index is
\* monotone: a request with no less memory and no fewer processors gets no
\* smaller an index.
C14_ValidAndMonotone ==
    (fn.op = "getPackageID" /\ InBuckets(fn.in[1], fn.in[2]))
        => /\ fn.out.err = ""
           /\ fn.out.index \in 0..9
           /\ fn.out.id = serverPackageIDs[fn.out.index + 1]
           /\ \A m2 \in MemoryValues, p2 \in ProcessorValues :
                  (fn.in[1] <= m2 /\ fn.in[2] <= p2 /\ InBuckets(m2, p2))
                      => fn.out.index <= getPackageID(m2, p2).index

\* Three processors and little memory have been resolved: the rung that
\* two processors take lies below.
C14_Witness ==
    /\ fn.op = "getPackageID"
    /\ fn.in = <<512, 3>>
    /\ fn.out.index = 4
    /\ getPackageID(512, 2).index = 3

\* C15: getPackageID resolves the greater of the memory index and the
\* processor index of the bucket tables, (2048 MB, 4 processors) giving
\* index 5, and returns an error and no package when memory exceeds
\* 98304 MB or processors exceed 12, as for (100000, 1).
C15_MaxOfBuckets ==
    fn.op = "getPackageID"
        => IF InBuckets(fn.in[1], fn.in[2])
           THEN /\ fn.out.err = ""
                /\ fn.out.index = TableIndex(fn.in[1], fn.in[2])
                /\ fn.in = <<2048, 4>> => fn.out.index = 5
           ELSE /\ fn.out.err # ""
                /\ fn.out.id = ""

C15_Witness ==
    /\ fn.op = "getPackageID"
    /\ fn.in = <<2048, 4>>
    /\ fn.out.index = 5
    /\ getPackageID(100000, 1).err # ""


\* A finished CreateVolume whose request passed the checks of its name, its
\* capability list (not empty), its content source (none) and its range.
CreatePassedChecks ==
    /\ CreateFinished
    /\ resp.name # ""
    /\ resp.request.caps # <<>>
    /\ ~resp.request.contentSource
    /\ parseCapacity(resp.request.required, resp.request.limit).err = ""

RequestedModes == Range(resp.request.caps)

MultiNodeModes == {MULTI_NODE_MULTI_WRITER, MULTI_NODE_READER_ONLY,
                   "MULTI_NODE_SINGLE_WRITER"}

\* C16 as stated: a CreateVolume that passed the other checks goes to the
\* Network Storage Controller (which begins with the server list) if any
\* requested capability is multi-node, and otherwise returns Unimplemented
\* without creating a server.
C16_AnyMultiNodeElseUnimplemented ==
    CreatePassedChecks =>
        IF RequestedModes \cap MultiNodeModes # {}
        THEN resp.reqs # <<>>
        ELSE resp.result = "Unimplemented" /\ resp.posted = <<>>

\* C16, amended: a CreateVolume that passed the other checks returns
\* InvalidArgument, sends nothing to the IaaS and creates no server when any
\* requested access mode is outside the driver's capability list
\* (MULTI_NODE_MULTI_WRITER only); it goes to the Network Storage Controller
\* when every requested mode is in the list; it never returns Unimplemented.
C16_UnsupportedModeRejected ==
    /\ CreateFinished => resp.result # "Unimplemented"
    /\ CreatePassedChecks =>
        IF RequestedModes \subseteq DriverVolumeCapabilities
        THEN resp.reqs # <<>> /\ resp.reqs[1][1] = "LIST"
        ELSE /\ resp.result = "InvalidArgument"
             /\ resp.reqs = <<>>
             /\ resp.posted = <<>>

\* A CreateVolume asking for SINGLE_NODE_WRITER alone has returned.
C16_Witness ==
    /\ CreatePassedChecks
    /\ resp.request.caps = <<SINGLE_NODE_WRITER>>
    /\ resp.result = "InvalidArgument"
    /\ resp.posted = <<>>


\* C17: a ControllerPublishVolume with readonly = true returns
\* InvalidArgument without having sent a request to the IaaS (the volume is
\* not loaded), and the step leaves the export lines, the ipset and the
\* servers as they were.
C17_ReadonlyRejected ==
    [][(resp'.kind = "ControllerPublishVolume" /\ resp'.request.readonly)
           => /\ resp'.result = "InvalidArgument"
              /\ resp'.reqs = <<>>
              /\ UNCHANGED <<exports, ipset, scripts, servers>>]_vars

\* A read-only publication of an existing volume to an existing node was
\* rejected.
C17_Witness ==
    /\ resp.kind = "ControllerPublishVolume"
    /\ resp.request.readonly
    /\ resp.node = "node-a"
    /\ \E s \in servers :
        /\ s.ifs
        /\ s.hostname = Hostname("pvc-1")
        /\ resp.arg = EncodeVolumeID(volumePrefixNetworkStorage, s.id)
    /\ resp.result = "InvalidArgument"
    /\ resp.reqs = <<>>


(***************************************************************************)
(* Wait called on a NetworkStorage, with and without a Driver behind it.   *)
(* Each poll is answered by the IaaS with a failure or with some log.      *)
(***************************************************************************)
WaitFaults == {"none", "api", "decode"}

WaitUnchanged ==
    UNCHANGED <<fn, servers, nextId, unique, pc, cv, resp, staged, ns, ipset, exports,
                scripts, granted, faulted>>

\* Wait is entered: timeElapsed is zero and wait is true.
CallWait ==
    /\ waiter.pc = "idle"
    /\ waiter' = [NoWait EXCEPT !.pc = "loop"]
    /\ WaitUnchanged

\* Wait returns (or panics) with the given outcome.
WaitDone(w, result) == [w EXCEPT !.pc = "done", !.result = result]

\* A pass of the loop that polls: the request reads ns.driver; a failed
\* request or an undecodable body ends Wait with that error; a log without
\* pending and running entries ends the loop; otherwise the pass sleeps for
\* more than a second.
WaitPoll ==
    /\ waiter.pc = "loop"
    /\ waiter.timeElapsed < timeMax
    /\ PollDue(waiter.timeElapsed)
    /\ IF NilDriver(ns)
       THEN waiter' = WaitDone(waiter, "panic")
       ELSE \E fault \in WaitFaults, logsList \in LogLists, d \in 1..MaxStall :
            LET seen == [waiter EXCEPT !.polled = TRUE, !.logsList = logsList,
                                       !.wait = LogBusy(logsList)]
            IN  IF fault # "none"
                THEN waiter' = WaitDone(waiter, "error")
                ELSE IF ~seen.wait
                THEN waiter' = WaitDone(seen, WaitReturn(seen.wait))
                ELSE waiter' = [seen EXCEPT !.timeElapsed = @ + d]
    /\ WaitUnchanged

\* A pass of the loop between two polls: 200 ms of sleep, or more.
WaitTick ==
    /\ waiter.pc = "loop"
    /\ waiter.timeElapsed < timeMax
    /\ ~PollDue(waiter.timeElapsed)
    /\ \E d \in 1..MaxStall : waiter' = [waiter EXCEPT !.timeElapsed = @ + d]
    /\ WaitUnchanged

\* The loop ends because timeMax seconds have gone by.
WaitDeadline ==
    /\ waiter.pc = "loop"
    /\ waiter.timeElapsed >= timeMax
    /\ waiter' = WaitDone(waiter, WaitReturn(waiter.wait))
    /\ WaitUnchanged

NextWait ==
    \/ CallWait
    \/ WaitPoll
    \/ WaitTick
    \/ WaitDeadline

SpecWait == InitNS /\ [][NextWait]_vars

\* C18: Wait returns success at the first poll that observes a log without
\* pending and running entries (whatever other entries it has, and also
\* when it is empty), it does not return success without such a poll, and
\* when it ends otherwise it returns Timeout.
C18_SuccessOrTimeout ==
    /\ (waiter.polled /\ ~LogBusy(waiter.logsList))
           => waiter.pc = "done" /\ waiter.result = "OK"
    /\ (waiter.pc = "done" /\ waiter.result = "OK")
           => waiter.polled /\ ~LogBusy(waiter.logsList)
    /\ (waiter.pc = "done" /\ waiter.result # "OK") => waiter.result = "Timeout"


\* The RPC that returned last was given a volume ID of two parts whose
\* first part is the block-storage prefix.
BlockStorageId ==
    /\ DecodeVolumeID(resp.arg).code = ""
    /\ DecodeVolumeID(resp.arg).type = volumePrefixBlockStorage

DecodingRpcs == {"DeleteVolume", "ControllerPublishVolume", "ControllerUnpublishVolume",
                 "ValidateVolumeCapabilities", "NodeStageVolume", "NodeUnstageVolume"}

\* The checks an RPC makes of its other fields before it splits the volume
\* ID have passed.
FieldsPresent ==
    CASE resp.kind = "ControllerPublishVolume" -> resp.node # "" /\ ~resp.request.readonly
      [] resp.kind = "ControllerUnpublishVolume" -> resp.node # ""
      [] resp.kind = "ValidateVolumeCapabilities" -> resp.request.caps # <<>>
      [] resp.kind = "NodeStageVolume" ->
             resp.request.stagingTargetPath # "" /\ resp.request.hasCapability
      [] resp.kind = "NodeUnstageVolume" -> resp.request.stagingTargetPath # ""
      [] OTHER -> TRUE

\* C19 as stated: every RPC given a volume ID with the type prefix bs
\* returns Unimplemented, whatever the rest of the request is.
C19_BlockStorageUnimplemented ==
    (resp.kind \in DecodingRpcs /\ BlockStorageId) => resp.result = "Unimplemented"

\* C19, amended: given a volume ID of type bs, DeleteVolume,
\* ControllerPublishVolume, ControllerUnpublishVolume, NodeStageVolume and
\* NodeUnstageVolume return Unimplemented when their other required fields
\* are present (and InvalidArgument when not); ValidateVolumeCapabilities
\* never returns Unimplemented: it confirms when every requested mode is
\* SINGLE_NODE_WRITER and returns InvalidArgument otherwise. None of them
\* sends a request to the IaaS.
C19_BlockStorageArms ==
    (resp.kind \in DecodingRpcs /\ BlockStorageId)
        => /\ resp.reqs = <<>>
           /\ ~FieldsPresent => resp.result = "InvalidArgument"
           /\ (FieldsPresent /\ resp.kind # "ValidateVolumeCapabilities")
                  => resp.result = "Unimplemented"
           /\ (FieldsPresent /\ resp.kind = "ValidateVolumeCapabilities")
                  => resp.result = IF Range(resp.request.caps) \subseteq {SINGLE_NODE_WRITER}
                                   THEN "OK" ELSE "InvalidArgument"

\* ValidateVolumeCapabilities has confirmed SINGLE_NODE_WRITER for a volume
\* ID of type bs.
C19_Witness ==
    /\ resp.kind = "ValidateVolumeCapabilities"
    /\ resp.arg = <<"b", "s", "-", "1">>
    /\ resp.request.caps = <<SINGLE_NODE_WRITER>>
    /\ resp.result = "OK"
    /\ resp.confirmed = <<SINGLE_NODE_WRITER>>


\* The supported-mode set ValidateVolumeCapabilities uses for the type of
\* the volume ID it was given.
SupportedModes ==
    IF DecodeVolumeID(resp.arg).type = volumePrefixBlockStorage
    THEN {SINGLE_NODE_WRITER}
    ELSE {MULTI_NODE_MULTI_WRITER}

\* The volume of the last request is there to validate: its ID is well
\* formed and, for type ns, its server was loaded.
VolumeLoaded ==
    /\ DecodeVolumeID(resp.arg).code = ""
    /\ \/ DecodeVolumeID(resp.arg).type = volumePrefixBlockStorage
       \/ /\ ~resp.fault
          /\ \E s \in servers : s.ifs /\ s.id = DecodeVolumeID(resp.arg).id

\* C20: ValidateVolumeCapabilities confirms only a request all of whose
\* access modes are in the supported-mode set of the volume's type (for ns:
\* MULTI_NODE_MULTI_WRITER), and then the confirmed list is the requested
\* list; a request for a volume it has loaded with a mode outside that set
\* returns InvalidArgument.
C20_ConfirmsAllOrNone ==
    resp.kind = "ValidateVolumeCapabilities"
        => /\ resp.result = "OK"
                  => /\ resp.request.caps # <<>>
                     /\ Range(resp.request.caps) \subseteq SupportedModes
                     /\ resp.confirmed = resp.request.caps
           /\ (VolumeLoaded /\ ~(Range(resp.request.caps) \subseteq SupportedModes))
                  => resp.result = "InvalidArgument"
           /\ (VolumeLoaded /\ resp.request.caps # <<>>
                   /\ Range(resp.request.caps) \subseteq SupportedModes)
                  => resp.result = "OK"

\* The capability MULTI_NODE_MULTI_WRITER was confirmed for an NS volume
\* whose server exists.
C20_Witness ==
    /\ resp.kind = "ValidateVolumeCapabilities"
    /\ DecodeVolumeID(resp.arg).type = volumePrefixNetworkStorage
    /\ VolumeLoaded
    /\ resp.request.caps = <<MULTI_NODE_MULTI_WRITER>>
    /\ resp.result = "OK"
    /\ resp.confirmed = <<MULTI_NODE_MULTI_WRITER>>


\* The RPC that returned last was given a well-formed NS volume ID and the
\* other fields it requires, so it went on to load the volume.
LoadingRpc ==
    /\ resp.kind \in DecodingRpcs
    /\ FieldsPresent
    /\ DecodeVolumeID(resp.arg).code = ""
    /\ DecodeVolumeID(resp.arg).type = volumePrefixNetworkStorage

\* The server the volume ID of the last request names, if there is one.
ServerPresent == \E s \in servers : s.id = DecodeVolumeID(resp.arg).id

\* The load of the last request failed for a reason other than a 404: the
\* request failed (transport or API error), the body was undecodable, or
\* the server has no network interface.
OtherLoadFailure ==
    \/ resp.cause \in {"transport", "api"}
    \/ resp.cause = "decode" /\ (ServerPresent \/ DecodeVolumeID(resp.arg).id = <<>>)
    \/ \E s \in servers : s.id = DecodeVolumeID(resp.arg).id /\ ~s.ifs

\* C21: when the IaaS answers 404 for the server of an NS volume ID,
\* ControllerPublishVolume, ControllerUnpublishVolume,
\* ValidateVolumeCapabilities and NodeStageVolume return NotFound and
\* DeleteVolume returns success; every other failure of the load is
\* reported as Internal.
C21_LoadFailures ==
    LoadingRpc
        => /\ (resp.cause \in {"none", "decode", "delete", "mount"}
                   /\ ~ServerPresent /\ DecodeVolumeID(resp.arg).id # <<>>)
                  => resp.result = IF resp.kind = "DeleteVolume" THEN "OK" ELSE "NotFound"
           /\ OtherLoadFailure => resp.result = "Internal"


(***************************************************************************)
(* AddNode and RemoveNode running at the same time on one volume, for      *)
(* different nodes, one remote command at a time. The commands of a chain  *)
(* run in order on the storage server, and between two of them a command   *)
(* of another session may run. "sed -i" reads /etc/exports, writes the     *)
(* lines it keeps to a temporary file and renames that file over           *)
(* /etc/exports; "echo >>" is a single append.                             *)
(***************************************************************************)
IPc == <<"1", "0", ".", "0", ".", "0", ".", "2">>

NodeC == [id |-> <<"c">>, hostname |-> "node-c", ifs |-> TRUE, ip |-> IPc, disk |-> 0]

\* The nodes the concurrent calls are made for.
ConcNodeIds == {"node-a", "node-b", "node-c"}

\* The storage server before the calls: node-a and node-c have access.
GrantedWorld ==
    World({IPa, IPc}, <<ExportLine(IPa), ExportLine(IPc)>>,
          {<<"node-a", IPa>>, <<"node-c", IPc>>})

\* A method call that has not begun.
NoMethodCall == [op |-> "", nodeID |-> "", ip |-> <<>>, buffer |-> <<>>, out |-> ""]

ConcUnchanged == UNCHANGED <<fn, servers, nextId, unique, resp, staged, ns, granted,
                             faulted, waiter>>

\* The call in slot c moves to position p with its locals as given.
ConcMove(c, p, call) ==
    /\ pc' = [pc EXCEPT ![c] = p]
    /\ cv' = [cv EXCEPT ![c] = call]

\* The call in slot c returns (or panics).
ConcReturn(c, out) == ConcMove(c, "done", [cv[c] EXCEPT !.out = out])

\* AddNode or RemoveNode is entered: the node is looked up (a read of
\* ns.driver) and the SSH connection is opened.
ConcCall(c) ==
    /\ pc[c] = "idle"
    /\ \E op \in {"AddNode", "RemoveNode"}, nodeID \in ConcNodeIds :
        LET look == getServerByHostname(servers, nodeID, FALSE)
            call == [NoMethodCall EXCEPT !.op = op, !.nodeID = nodeID,
                                         !.ip = look.server.ip]
        IN  /\ \A d \in Calls \ {c} : pc[d] = "idle" \/ cv[d].nodeID # nodeID
            /\ IF NilDriver(ns)
               THEN ConcMove(c, "done", [call EXCEPT !.out = "panic"])
               ELSE IF look.err \/ ~look.server.ifs
               THEN ConcMove(c, "done", [call EXCEPT !.out = "error"])
               ELSE ConcMove(c, IF op = "AddNode" THEN "file" ELSE "rm", call)
    /\ UNCHANGED <<ipset, exports, scripts>>
    /\ ConcUnchanged

\* AddNode, CreateFile: the per-node script is created or overwritten.
ConcCreateFile(c) ==
    /\ pc[c] = "file"
    /\ scripts' = {p \in scripts : p[1] # cv[c].nodeID} \cup {<<cv[c].nodeID, cv[c].ip>>}
    /\ ConcMove(c, "script", cv[c])
    /\ UNCHANGED <<ipset, exports>>
    /\ ConcUnchanged

\* AddNode, the script: ipset add nodes <ip>; a member already makes it
\* fail, and the chain stops.
ConcIpsetAdd(c) ==
    /\ pc[c] = "script"
    /\ IF cv[c].ip \in ipset
       THEN ConcReturn(c, "error") /\ UNCHANGED ipset
       ELSE ConcMove(c, "echo", cv[c]) /\ ipset' = ipset \cup {cv[c].ip}
    /\ UNCHANGED <<exports, scripts>>
    /\ ConcUnchanged

\* AddNode, echo '<line>' >> /etc/exports, then the restart of the NFS
\* server and the return.
ConcEcho(c) ==
    /\ pc[c] = "echo"
    /\ exports' = Append(exports, ExportLine(cv[c].ip))
    /\ ConcReturn(c, "OK")
    /\ UNCHANGED <<ipset, scripts>>
    /\ ConcUnchanged

\* RemoveNode, rm -f <script>.
ConcRm(c) ==
    /\ pc[c] = "rm"
    /\ scripts' = {p \in scripts : p[1] # cv[c].nodeID}
    /\ ConcMove(c, "del", cv[c])
    /\ UNCHANGED <<ipset, exports>>
    /\ ConcUnchanged

\* RemoveNode, ipset del nodes <ip>; no such member makes it fail, and the
\* chain stops.
ConcIpsetDel(c) ==
    /\ pc[c] = "del"
    /\ IF cv[c].ip \notin ipset
       THEN ConcReturn(c, "error") /\ UNCHANGED ipset
       ELSE ConcMove(c, "sed", cv[c]) /\ ipset' = ipset \ {cv[c].ip}
    /\ UNCHANGED <<exports, scripts>>
    /\ ConcUnchanged

\* RemoveNode, sed -i: the file is read and the lines to keep are written
\* to the temporary file.
ConcSedRead(c) ==
    /\ pc[c] = "sed"
    /\ ConcMove(c, "rename", [cv[c] EXCEPT !.buffer = SedDelete(cv[c].ip, exports)])
    /\ UNCHANGED <<ipset, exports, scripts>>
    /\ ConcUnchanged

\* RemoveNode, sed -i: the temporary file replaces /etc/exports; the call
\* returns.
ConcSedRename(c) ==
    /\ pc[c] = "rename"
    /\ exports' = cv[c].buffer
    /\ ConcReturn(c, "OK")
    /\ UNCHANGED <<ipset, scripts>>
    /\ ConcUnchanged

InitConc ==
    /\ fn = NoFn
    /\ servers = NodeServers \cup {NodeC}
    /\ nextId = 0
    /\ unique = FALSE
    /\ pc = [c \in Calls |-> "idle"]
    /\ cv = [c \in Calls |-> NoMethodCall]
    /\ resp = NoResp
    /\ staged = {}
    /\ ns \in {[driver |-> d, ID |-> ServerIdOf(1), IP |-> StorageIP, Size |-> 16] :
                  d \in {NoDriver, TheDriver}}
    /\ ipset = GrantedWorld.ipset
    /\ exports = GrantedWorld.exports
    /\ scripts = GrantedWorld.scripts
    /\ granted = {}
    /\ faulted = FALSE
    /\ waiter = NoWait

NextConc ==
    \/ \E c \in Calls : ConcCall(c)
    \/ \E c \in Calls : ConcCreateFile(c)
    \/ \E c \in Calls : ConcIpsetAdd(c)
    \/ \E c \in Calls : ConcEcho(c)
    \/ \E c \in Calls : ConcRm(c)
    \/ \E c \in Calls : ConcIpsetDel(c)
    \/ \E c \in Calls : ConcSedRead(c)
    \/ \E c \in Calls : ConcSedRename(c)

SpecConc == InitConc /\ [][NextConc]_vars

\* The orders in which the calls of all slots can run one after the other.
SerialOrders ==
    {o \in [1..MaxCalls -> Calls] : \A i, j \in 1..MaxCalls : o[i] = o[j] => i = j}

\* The storage server after the calls of the slots in order have run one
\* after the other, each to its end, starting from w.
RECURSIVE SerialWorld(_, _)
SerialWorld(order, w) ==
    IF order = <<>> THEN w
    ELSE LET call == cv[Head(order)]
             m == IF call.op = "AddNode"
                  THEN AddNode(ns, call.nodeID, "none", servers, w)
                  ELSE RemoveNode(ns, call.nodeID, "none", servers, w)
         IN  SerialWorld(Tail(order), m.w)

\* Every slot has made its call and the call has returned.
ConcFinished == \A c \in Calls : pc[c] = "done" /\ cv[c].out # "panic"

\* C22: when AddNode and RemoveNode calls for different nodes have run
\* at the same time on one volume, /etc/exports and the ipset are what
\* some serial order of the same calls leaves.
C22_SerialOrder ==
    ConcFinished
        => \E o \in SerialOrders :
               LET w == SerialWorld(o, GrantedWorld)
               IN  ipset = w.ipset /\ exports = w.exports


(***************************************************************************)
(* The operations of NetworkStorage as the sequence of steps one call      *)
(* performs. A fault <<site, kind>> names the step the environment fails;  *)
(* an outcome is a status ("ok", "err", "panic") and the events up to the  *)
(* return: <<"do", site, "">> for a step done, <<"fail", site, kind>> for *)
(* the step that failed, <<"open", h, "">> and <<"close", h, "">> for a    *)
(* handle.                                                                 *)
(***************************************************************************)
NoFault == <<"none", "">>

Steps(status, events) == [status |-> status, events |-> events]

\* One step, which fails when the fault names one of its sites.
Step(site, kinds, fault) ==
    IF fault[1] = site /\ fault[2] \in kinds
    THEN Steps("err", <<<<"fail", fault[1], fault[2]>>>>)
    ELSE Steps("ok", <<<<"do", site, "">>>>)

\* How an SSH connection authenticates, told by the ways its opening can
\* fail: one that parses the private key uses ssh.PublicKeys, one that only
\* dials uses ssh.Password; other handles authenticate nothing.
Auth(kinds) ==
    IF "key" \in kinds THEN "key" ELSE IF kinds = {"dial"} THEN "password" ELSE ""

\* A step that opens the handle h.
Open(h, kinds, fault) ==
    IF fault[1] = h /\ fault[2] \in kinds
    THEN Steps("err", <<<<"fail", fault[1], fault[2]>>>>)
    ELSE Steps("ok", <<<<"open", h, Auth(kinds)>>>>)

\* a; b: b runs when a returned without error.
Seq2(a, b) ==
    IF a.status # "ok" THEN a ELSE Steps(b.status, a.events \o b.events)

\* h, err := open; if err != nil { return }; defer h.Close(); rest
\* The deferred call runs when the function returns or panics.
OpenDefer(open, h, rest) ==
    IF open.status # "ok" THEN open
    ELSE Steps(rest.status, open.events \o rest.events \o <<<<"close", h, "">>>>)

\* A read of ns.driver comes first: a nil driver panics.
ReadsDriver(n, a) == IF NilDriver(n) THEN Steps("panic", <<>>) ELSE a

\* A CreateSSHClient that dials with a password.
CreateSSHClientPassword(n, h, fault) == ReadsDriver(n, Open(h, {"dial"}, fault))

\* NetworkStorage.CreateSSHClient: parse ns.driver's private key and dial.
\* h names the connection it opens.
CreateSSHClient(n, h, fault) == ReadsDriver(n, Open(h, {"key", "dial"}, fault))

\* NetworkStorage.CreateSSHSession(sshClient): a session on the given
\* connection, or on one it opens itself when given none ("nil").
\* h names the session.
CreateSSHSession(n, sshClient, h, fault) ==
    IF sshClient # "nil" THEN Open(h, {"new"}, fault)
    ELSE Seq2(CreateSSHClient(n, "helperClient", fault), Open(h, {"new"}, fault))

\* NetworkStorage.CreateSFTPClient(sshClient): likewise for SFTP. h names
\* the SFTP client.
CreateSFTPClient(n, sshClient, h, fault) ==
    IF sshClient # "nil" THEN Open(h, {"new"}, fault)
    ELSE Seq2(CreateSSHClient(n, "helperClient", fault), Open(h, {"new"}, fault))

\* NetworkStorage.CreateFile(sftpClient, filePath, contents): with no SFTP
\* client given it opens a connection and a client and defers their
\* closing; then MkdirAll, Create (the remote file is closed on return)
\* and the write.
CreateFile(n, sftpClient, filePath, fault) ==
    LET body == Seq2(Step(filePath, {"mkdir"}, fault),
                     OpenDefer(Open(filePath, {"create"}, fault), filePath,
                               Step(filePath, {"write"}, fault)))
    IN  IF sftpClient # "nil" THEN body
        ELSE OpenDefer(CreateSSHClient(n, "helperClient", fault), "helperClient",
                       OpenDefer(CreateSFTPClient(n, "helperClient", "helperSftp", fault),
                                 "helperSftp", body))

\* A Wait that is left out.
WaitStepSkipped(n, site, fault) == Steps("ok", <<>>)

\* NetworkStorage.Wait as one step of an operation: it reads ns.driver,
\* and returns an error on a failed poll or a timeout.
WaitStep(n, site, fault) == ReadsDriver(n, Step(site, {"poll", "timeout"}, fault))

\* An EnsureDisk that posts the disk whatever the list holds.
DiskMissingAlways(diskFound) == TRUE

\* EnsureDisk, lines 783-793: the disk is missing when no disk of the list
\* has the label.
DiskMissing(diskFound) == ~diskFound

\* NetworkStorage.EnsureDisk(size): Wait; GET the disks; when none has the
\* label nsDiskLabel, POST the disk and Wait; then a session opened with no
\* connection given, and the mount script. diskFound tells whether the
\* list holds a disk with the label.
EnsureDisk(n, diskFound, fault) ==
    LET create == Seq2(Step("POST disks", {"request"}, fault),
                  Seq2(Step("decode disk", {"decode"}, fault),
                       WaitStep(n, "Wait after POST disks", fault)))
        mount == OpenDefer(CreateSSHSession(n, "nil", "mountSession", fault), "mountSession",
                           Step("mount script", {"run"}, fault))
    IN  Seq2(WaitStep(n, "Wait before GET disks", fault),
        Seq2(Step("GET disks", {"request", "decode"}, fault),
             IF DiskMissing(diskFound) THEN Seq2(create, mount) ELSE mount))

\* The node lookup of AddNode and RemoveNode; nodeFound tells whether the
\* node has a server with a network interface.
NodeLookup(n, nodeFound, fault) ==
    ReadsDriver(n, IF nodeFound THEN Step("lookup", {"request"}, fault)
                   ELSE Steps("err", <<<<"fail", "lookup", "node">>>>))

nsFormatNodeNetworkScriptPath == "/etc/network/if-up.d/10-nfs-<node>"

\* NetworkStorage.AddNode as steps.
AddNodeSteps(n, nodeFound, fault) ==
    Seq2(NodeLookup(n, nodeFound, fault),
         OpenDefer(CreateSSHClient(n, "client", fault), "client",
         OpenDefer(CreateSFTPClient(n, "client", "sftp", fault), "sftp",
         Seq2(CreateFile(n, "sftp", nsFormatNodeNetworkScriptPath, fault),
              OpenDefer(CreateSSHSession(n, "client", "session", fault), "session",
                        Step("grant command", {"run"}, fault))))))

\* NetworkStorage.RemoveNode as steps.
RemoveNodeSteps(n, nodeFound, fault) ==
    Seq2(NodeLookup(n, nodeFound, fault),
         OpenDefer(CreateSSHClient(n, "client", fault), "client",
         OpenDefer(CreateSSHSession(n, "client", "session", fault), "session",
                   Step("revoke command", {"run"}, fault))))

\* The seven files createNetworkStorage uploads, in its order.
nsPathAPTAutoConf == "/etc/apt/apt.conf.d/00auto-conf"
nsPathBootstrapScript == "/etc/clouddk_network_storage_bootstrap.sh"
nsPathFirewallScript == "/etc/network/if-up.d/00-nfs-firewall-rules"
nsPathLimitsConf == "/etc/security/limits.conf"
nsPathMountScript == "/etc/clouddk_network_storage_mount.sh"
nsPathPublicKey == "/root/.ssh/id_rsa_driver.pub"
nsPathSysctlConf == "/etc/sysctl.d/20-maximum-performance.conf"

Uploads == <<nsPathAPTAutoConf, nsPathBootstrapScript, nsPathFirewallScript,
             nsPathLimitsConf, nsPathMountScript, nsPathPublicKey, nsPathSysctlConf>>

\* if err != nil { ns.Delete(); return nil, false, err }: Delete reads
\* ns.driver, and its own error is dropped.
OrDelete(n, a) ==
    IF a.status # "err" THEN a
    ELSE IF NilDriver(n) THEN Steps("panic", a.events)
    ELSE Steps("err", a.events \o <<<<"do", "Delete", "">>>>)

\* The uploads from the i-th on, then rest. The public key is read from
\* ns.driver.
RECURSIVE UploadFrom(_, _, _, _)
UploadFrom(n, i, fault, rest) ==
    IF i > Len(Uploads) THEN rest
    ELSE LET file == IF Uploads[i] = nsPathPublicKey
                     THEN ReadsDriver(n, CreateFile(n, "sftp", Uploads[i], fault))
                     ELSE CreateFile(n, "sftp", Uploads[i], fault)
         IN  Seq2(OrDelete(n, file), UploadFrom(n, i + 1, fault, rest))

\* createNetworkStorage as steps. n is the NetworkStorage it builds after
\* the POST; exists tells whether a server has the hostname, ifs whether
\* the new server has a network interface, diskFound whether its disk list
\* holds the data disk. A failed lookup and a lookup that finds nothing
\* both leave err != nil, and the POST follows.
createNetworkStorageSteps(n, exists, ifs, diskFound, fault) ==
    LET lookup == Step("lookup hostname", {"request"}, fault)
        bootstrap == OpenDefer(OrDelete(n, CreateSSHSession(n, "client", "session", fault)),
                               "session",
                               Seq2(OrDelete(n, Step("bootstrap script", {"run"}, fault)),
                                    OrDelete(n, EnsureDisk(n, diskFound, fault))))
        uploads == OpenDefer(OrDelete(n, CreateSFTPClient(n, "client", "sftp", fault)),
                             "sftp", UploadFrom(n, 1, fault, bootstrap))
        ssh == OpenDefer(OrDelete(n, Open("client", {"dial"}, fault)), "client", uploads)
        interfaces == IF ifs THEN Steps("ok", <<>>)
                      ELSE OrDelete(n, Steps("err", <<<<"fail", "interfaces", "none">>>>))
        created == Seq2(Step("POST cloudservers", {"request"}, fault),
                   Seq2(Step("decode server", {"decode"}, fault),
                   Seq2(interfaces,
                   Seq2(OrDelete(n, WaitStep(n, "Wait", fault)), ssh))))
    IN  IF lookup.status = "ok" /\ exists
        THEN Steps("exists", lookup.events)
        ELSE Steps(created.status, lookup.events \o created.events)

(***************************************************************************)
(* The operations called one at a time on a NetworkStorage, with and       *)
(* without a Driver behind it, under every single fault.                   *)
(***************************************************************************)
FileFaults(filePath) == {<<filePath, k>> : k \in {"mkdir", "create", "write"}}

StepFaults ==
    {NoFault, <<"lookup hostname", "request">>, <<"POST cloudservers", "request">>,
     <<"decode server", "decode">>, <<"Wait", "poll">>, <<"Wait", "timeout">>,
     <<"client", "dial">>, <<"client", "key">>, <<"sftp", "new">>, <<"session", "new">>,
     <<"bootstrap script", "run">>,
     <<"Wait before GET disks", "poll">>, <<"Wait before GET disks", "timeout">>,
     <<"GET disks", "request">>, <<"GET disks", "decode">>, <<"POST disks", "request">>,
     <<"decode disk", "decode">>,
     <<"Wait after POST disks", "poll">>, <<"Wait after POST disks", "timeout">>,
     <<"helperClient", "dial">>, <<"helperSftp", "new">>, <<"mountSession", "new">>,
     <<"mount script", "run">>,
     <<"lookup", "request">>, <<"grant command", "run">>, <<"revoke command", "run">>}
    \cup UNION {FileFaults(Uploads[i]) : i \in 1..Len(Uploads)}
    \cup FileFaults(nsFormatNodeNetworkScriptPath)

\* An operation was called with the given inputs and ended as out tells.
\* The operations leave the NetworkStorage value as it is, so one call from
\* the start shows all a call can do.
StepsDone(op, in, out) ==
    /\ fn = NoFn
    /\ fn' = [op |-> op, in |-> in, out |-> out]
    /\ UNCHANGED <<servers, nextId, unique, pc, cv, resp, staged, ns, ipset, exports,
                   scripts, granted, faulted, waiter>>

CallCreate ==
    \E exists \in BOOLEAN, ifs \in BOOLEAN, diskFound \in BOOLEAN, fault \in StepFaults :
        StepsDone("createNetworkStorage",
                  [exists |-> exists, ifs |-> ifs, diskFound |-> diskFound, fault |-> fault],
                  createNetworkStorageSteps(ns, exists, ifs, diskFound, fault))

CallEnsureDisk ==
    \E diskFound \in BOOLEAN, fault \in StepFaults :
        StepsDone("EnsureDisk", [diskFound |-> diskFound, fault |-> fault],
                  EnsureDisk(ns, diskFound, fault))

CallAddNodeSteps ==
    \E nodeFound \in BOOLEAN, fault \in StepFaults :
        StepsDone("AddNode", [nodeFound |-> nodeFound, fault |-> fault],
                  AddNodeSteps(ns, nodeFound, fault))

CallRemoveNodeSteps ==
    \E nodeFound \in BOOLEAN, fault \in StepFaults :
        StepsDone("RemoveNode", [nodeFound |-> nodeFound, fault |-> fault],
                  RemoveNodeSteps(ns, nodeFound, fault))

\* CreateFile called with no SFTP client.
CallCreateFile ==
    \E fault \in StepFaults :
        StepsDone("CreateFile", [fault |-> fault],
                  CreateFile(ns, "nil", nsFormatNodeNetworkScriptPath, fault))

\* NetworkStorage.Delete hands DoClientRequest the accepted statuses, the
\* number of attempts and the delay in seconds.
deleteAccept == {200, 404}
deleteAttempts == 6
deleteDelay == 10

\* What one attempt can end in: a status, or 0 for no response at all.
AttemptAnswers == {200, 404, 500, 0}

\* clouddk.DoClientRequest with retries: the attempts are made in turn,
\* with the delay between two of them, until one is answered with an
\* accepted status or maxAttempts were made. answers[i] is what the i-th
\* attempt would end in.
RECURSIVE DoClientRequestRetry(_, _, _, _, _)
DoClientRequestRetry(accept, maxAttempts, delay, answers, i) ==
    IF answers[i] \in accept
    THEN [err |-> FALSE, attempts |-> i, waited |-> delay * (i - 1), status |-> answers[i]]
    ELSE IF i >= maxAttempts
    THEN [err |-> TRUE, attempts |-> i, waited |-> delay * (i - 1), status |-> answers[i]]
    ELSE DoClientRequestRetry(accept, maxAttempts, delay, answers, i + 1)

\* Delete that gives up after the first attempt.
DeleteRunOnce(n, answers) ==
    IF NilDriver(n) THEN [status |-> "panic", attempts |-> 0, waited |-> 0]
    ELSE LET r == DoClientRequestRetry(deleteAccept, 1, deleteDelay, answers, 1)
         IN  [status |-> IF r.err THEN "err" ELSE "ok",
              attempts |-> r.attempts, waited |-> r.waited]

\* NetworkStorage.Delete with the answers of the IaaS to its attempts: the
\* DELETE requests issued, the seconds waited between them, and the return.
DeleteRun(n, answers) ==
    IF NilDriver(n) THEN [status |-> "panic", attempts |-> 0, waited |-> 0]
    ELSE LET r == DoClientRequestRetry(deleteAccept, deleteAttempts, deleteDelay, answers, 1)
         IN  [status |-> IF r.err THEN "err" ELSE "ok",
              attempts |-> r.attempts, waited |-> r.waited]

CallDelete ==
    \E answers \in [1..deleteAttempts -> AttemptAnswers] :
        StepsDone("Delete", [answers |-> answers], DeleteRun(ns, answers))

NextSteps ==
    \/ CallCreate
    \/ CallEnsureDisk
    \/ CallAddNodeSteps
    \/ CallRemoveNodeSteps
    \/ CallCreateFile
    \/ CallDelete

SpecSteps == InitNS /\ [][NextSteps]_vars

StepOps == {"createNetworkStorage", "EnsureDisk", "AddNode", "RemoveNode", "CreateFile"}

\* The last operation returned to its caller (it did not panic).
StepsReturned == fn.op \in StepOps /\ fn.out.status # "panic"

\* The handles the last operation opened and never closed.
HandlesLeft ==
    {fn.out.events[i][2] : i \in {k \in 1..Len(fn.out.events) :
        /\ fn.out.events[k][1] = "open"
        /\ ~\E j \in (k + 1)..Len(fn.out.events) :
               fn.out.events[j][1] = "close" /\ fn.out.events[j][2] = fn.out.events[k][2]}}

\* C23: when Create, EnsureDisk, AddNode, RemoveNode or CreateFile returns,
\* with or without an error, every SSH connection, SSH session, SFTP client
\* and remote file it opened has been closed, those its helpers opened
\* themselves included.
C23_HandlesReleased == StepsReturned => HandlesLeft = {}


\* The steps of createNetworkStorage in the order of the code; the cleanup
\* (Delete) and the deferred closes are no steps of the sequence.
CreateOrder ==
    <<"lookup hostname", "POST cloudservers", "decode server", "interfaces", "Wait",
      "client", "sftp">> \o Uploads \o
    <<"session", "bootstrap script", "Wait before GET disks", "GET disks", "POST disks",
      "decode disk", "Wait after POST disks", "helperClient", "mountSession",
      "mount script">>

\* The events of the last operation at which a step began.
StepBegins ==
    {i \in 1..Len(fn.out.events) :
        /\ fn.out.events[i][1] \in {"do", "open", "fail"}
        /\ fn.out.events[i][2] # "Delete"}

\* C24: within one Create no step begins after a step that failed: every
\* step that begins finds all earlier steps done.
C24_NoStepAfterFailure ==
    fn.op = "createNetworkStorage" =>
        \A i \in StepBegins : \A j \in 1..(i - 1) : fn.out.events[j][1] # "fail"


\* The attempts of the last Delete that were answered with 200 or 404.
Accepted == {i \in 1..deleteAttempts : fn.in.answers[i] \in {200, 404}}

\* C25: Delete issues the DELETE at most 6 times, 10 s apart; it returns
\* success at the first attempt answered with 200 or 404, having made no
\* attempt after it, and returns an error only when all 6 attempts ended in
\* no response or another status. On a NetworkStorage without Driver it
\* panics before any request.
C25_DeleteRetries ==
    fn.op = "Delete" =>
        /\ fn.out.status = "panic" <=> NilDriver(ns)
        /\ fn.out.attempts <= 6
        /\ fn.out.status # "panic" =>
            /\ fn.out.waited = 10 * (fn.out.attempts - 1)
            /\ fn.out.status = "ok" <=> Accepted # {}
            /\ fn.out.status = "ok" =>
                  fn.out.attempts \in Accepted /\ \A i \in Accepted : fn.out.attempts <= i
            /\ fn.out.status = "err" => fn.out.attempts = 6

\* Delete succeeded at its third attempt, after two that failed.
C25_Witness ==
    /\ fn.op = "Delete"
    /\ fn.out.status = "ok"
    /\ fn.out.attempts = 3
    /\ fn.in.answers[1] = 0
    /\ fn.in.answers[2] = 500
    /\ fn.in.answers[3] = 404


\* The IP of a node, when the node has a cloud server.
OwnIPs(nodeID) == {s.ip : s \in {t \in NodeServers : t.hostname = nodeID}}

\* C26: a RemoveNode(n) leaves the export line and the ipset entry of
\* every node other than n as they were, also of a node whose IP contains
\* n's IP as a substring.
C26_RemoveOnlyOwn ==
    [][fn'.op = "RemoveNode" =>
          \A ip \in NodeIPs \ OwnIPs(fn'.in) :
              /\ (ExportLine(ip) \in Range(exports')) = (ExportLine(ip) \in Range(exports))
              /\ (ip \in ipset') = (ip \in ipset)]_vars


\* The number of lines of /etc/exports that are the export line of the IP.
ExportCount(ip, lines) == Cardinality({i \in 1..Len(lines) : lines[i] = ExportLine(ip)})

\* The last call was an AddNode that failed with something done on the
\* storage server for a node no AddNode has succeeded for: its script is
\* written, or its IP is in the ipset or in /etc/exports.
AddNodeFailedHalfway ==
    /\ fn.op = "AddNode"
    /\ fn.out = "error"
    /\ fn.in \notin granted
    /\ \E ip \in OwnIPs(fn.in) :
        \/ <<fn.in, ip>> \in scripts
        \/ ip \in ipset
        \/ ExportLine(ip) \in Range(exports)

\* The step is an AddNode for nodeID that met no fault.
AddNodeUnfaulted(nodeID) ==
    LET m == AddNode(ns, nodeID, "none", servers, TheWorld)
    IN  /\ fn' = [op |-> "AddNode", in |-> nodeID, out |-> Outcome(m)]
        /\ ipset' = m.w.ipset
        /\ exports' = m.w.exports
        /\ scripts' = m.w.scripts

\* C27: when an AddNode failed after some of its remote steps took effect,
\* the next AddNode for the same node, meeting no fault, succeeds and
\* leaves the node's IP once in /etc/exports and in the nodes ipset.
C27_RetrySucceeds ==
    [][(AddNodeFailedHalfway /\ AddNodeUnfaulted(fn.in)) =>
          /\ fn'.out = "OK"
          /\ \A ip \in OwnIPs(fn.in) :
                ip \in ipset' /\ ExportCount(ip, exports') = 1]_vars


\* The last RPC was a DeleteVolume of an NS volume whose server is present
\* in the IaaS, and the IaaS answered the load request.
DeleteOfPresent ==
    /\ resp.kind = "DeleteVolume"
    /\ LoadingRpc
    /\ ServerPresent
    /\ resp.cause \in {"none", "delete"}

\* C28: DeleteVolume of an NS volume whose server is present issues the
\* DELETE for that server whenever the IaaS answers the load request, with
\* or without network interfaces on the server.
C28_PresentServerDeleted ==
    DeleteOfPresent =>
        \E i \in 1..Len(resp.reqs) : resp.reqs[i] = <<"DELETE", DecodeVolumeID(resp.arg).id>>


\* The POST disks requests the last operation sent, answered or not.
DiskPosts ==
    {i \in 1..Len(fn.out.events) :
        fn.out.events[i][1] \in {"do", "fail"} /\ fn.out.events[i][2] = "POST disks"}

\* C29: EnsureDisk, called by itself or at the end of createNetworkStorage,
\* sends POST disks at most once, only after the disk list was read and
\* held no disk labelled nsDiskLabel, so the server has one such disk at
\* most afterwards; on a server that has the disk an EnsureDisk that
\* succeeds has read the list and run the mount script, nothing else.
C29_OneDataDisk ==
    /\ fn.op \in {"EnsureDisk", "createNetworkStorage"} =>
        /\ Cardinality(DiskPosts) + (IF fn.in.diskFound THEN 1 ELSE 0) <= 1
        /\ \A i \in DiskPosts :
              \E j \in 1..(i - 1) : fn.out.events[j] = <<"do", "GET disks", "">>
    /\ (fn.op = "EnsureDisk" /\ fn.in.diskFound /\ fn.out.status = "ok") =>
        fn.out.events = <<<<"do", "Wait before GET disks", "">>,
                          <<"do", "GET disks", "">>,
                          <<"open", "helperClient", "key">>,
                          <<"open", "mountSession", "">>,
                          <<"do", "mount script", "">>,
                          <<"close", "mountSession", "">>>>

\* EnsureDisk has succeeded on a server that had the data disk.
C29_Witness ==
    /\ fn.op = "EnsureDisk"
    /\ fn.in.diskFound
    /\ fn.out.status = "ok"
    /\ DiskPosts = {}
    /\ \E i \in 1..Len(fn.out.events) : fn.out.events[i] = <<"do", "mount script", "">>


\* The events of the last operation that are about the given step.
EventsAt(site) == {i \in 1..Len(fn.out.events) : fn.out.events[i][2] = site}

\* The step was done, with success, before the i-th event.
DoneBefore(site, i) == \E j \in 1..(i - 1) : fn.out.events[j] = <<"do", site, "">>

\* C30: in EnsureDisk the disks are listed only after a Wait that
\* succeeded; when a disk is posted, the session for the mount script is
\* opened and the script run only after a second Wait that succeeded,
\* made after the POST; a Wait that fails is the last step of EnsureDisk.
\* On a NetworkStorage without Driver the first Wait panics and no step
\* has run.
C30_WaitsForQuiescence ==
    fn.op = "EnsureDisk" =>
        /\ \A i \in EventsAt("GET disks") : DoneBefore("Wait before GET disks", i)
        /\ \A p \in EventsAt("POST disks") :
              /\ \A w \in EventsAt("Wait after POST disks") : p < w
              /\ \A i \in EventsAt("helperClient") \cup EventsAt("mountSession")
                          \cup EventsAt("mount script") :
                    p < i /\ DoneBefore("Wait after POST disks", i)
        /\ \A w \in EventsAt("Wait before GET disks") \cup EventsAt("Wait after POST disks") :
              fn.out.events[w][1] = "fail" =>
                  fn.out.status = "err" /\ \A i \in StepBegins : i <= w
        /\ NilDriver(ns) => fn.out = Steps("panic", <<>>)

\* EnsureDisk has posted the disk, waited, and run the mount script.
C30_Witness ==
    /\ fn.op = "EnsureDisk"
    /\ fn.out.status = "ok"
    /\ EventsAt("POST disks") # {}
    /\ EventsAt("Wait after POST disks") # {}
    /\ EventsAt("mount script") # {}


\* C31: a Wait that has ended has ended in one of three outcomes, success,
\* Timeout or the error of a failed poll; it returns Timeout only when
\* timeMax seconds have gone by and its last poll saw a pending or running
\* entry, and success only from a poll that saw none.
C31_ThreeOutcomes ==
    waiter.pc = "done" =>
        /\ waiter.result \in {"OK", "Timeout", "error"}
        /\ waiter.result = "Timeout" =>
              /\ waiter.timeElapsed >= timeMax
              /\ waiter.polled
              /\ LogBusy(waiter.logsList)
        /\ waiter.result = "OK" => waiter.polled /\ ~LogBusy(waiter.logsList)


(***************************************************************************)
(* The loop of createNetworkStorage that waits for the new server to       *)
(* accept SSH connections with the root password, one pass at a time, and  *)
(* the statement after it. The variable waiter holds the position, the     *)
(* whole seconds elapsed, the err of the last dial, the time of the last   *)
(* dial and the way the code goes on.                                      *)
(***************************************************************************)
dialTimeMax == 300

\* The loop is entered: timeElapsed is zero and err is nil.
CallDial ==
    /\ waiter.pc = "idle"
    /\ waiter' = [pc |-> "dial", timeElapsed |-> 0, err |-> FALSE, dialed |-> FALSE,
                  lastDial |-> 0, result |-> ""]
    /\ WaitUnchanged

\* A pass that dials: success leaves the loop, and the code goes on to the
\* SFTP client and the uploads; failure sleeps for more than a second.
DialTry ==
    /\ waiter.pc = "dial"
    /\ waiter.timeElapsed < dialTimeMax
    /\ PollDue(waiter.timeElapsed)
    /\ \E ok \in BOOLEAN, d \in 1..MaxStall :
        LET tried == [waiter EXCEPT !.dialed = TRUE, !.lastDial = waiter.timeElapsed,
                                    !.err = ~ok]
        IN  waiter' = IF ok THEN [tried EXCEPT !.pc = "done", !.result = "uploads"]
                      ELSE [tried EXCEPT !.timeElapsed = @ + d]
    /\ WaitUnchanged

\* A pass between two dials: 200 ms of sleep, or more.
DialTick ==
    /\ waiter.pc = "dial"
    /\ waiter.timeElapsed < dialTimeMax
    /\ ~PollDue(waiter.timeElapsed)
    /\ \E d \in 1..MaxStall : waiter' = [waiter EXCEPT !.timeElapsed = @ + d]
    /\ WaitUnchanged

\* The loop ends because dialTimeMax seconds have gone by: with err set,
\* ns.Delete() and the error; Delete reads ns.driver.
DialDeadline ==
    /\ waiter.pc = "dial"
    /\ waiter.timeElapsed >= dialTimeMax
    /\ waiter' = [waiter EXCEPT !.pc = "done",
                                !.result = IF ~waiter.err THEN "uploads"
                                           ELSE IF NilDriver(ns) THEN "panic"
                                           ELSE "deleted"]
    /\ WaitUnchanged

NextDial ==
    \/ CallDial
    \/ DialTry
    \/ DialTick
    \/ DialDeadline

SpecDial == InitNS /\ [][NextDial]_vars

OpenedWith(auth) ==
    {i \in 1..Len(fn.out.events) :
        fn.out.events[i][1] = "open" /\ fn.out.events[i][3] = auth}

C34_UnstageUnmounts ==
    (resp.kind = "NodeUnstageVolume" /\ LoadingRpc /\ resp.cause = "none") =>
        /\ resp.result = "OK"
        /\ resp.request.stagingTargetPath \notin staged


\* C35: createNetworkStorage sends the server POST only after a hostname
\* lookup that was answered and found no server; a lookup that fails makes
\* it return an error with no POST sent.
C35_PostOnlyAfterLookup ==
    fn.op = "createNetworkStorage" =>
        /\ \A i \in EventsAt("POST cloudservers") :
              DoneBefore("lookup hostname", i) /\ ~fn.in.exists
        /\ <<"fail", "lookup hostname", "request">> \in Range(fn.out.events) =>
              fn.out.status = "err" /\ EventsAt("POST cloudservers") = {}


\* C36: the NetworkStorage a createNetworkStorage has built has its driver
\* set when the first method is called on it (Delete when the server has no
\* network interface, Wait otherwise), and no call ends in a panic.
C36_DriverSet ==
    /\ \A c \in Calls : pc[c] = "created" => ~NilDriver(cv[c].ns)
    /\ resp.result # "panic"


\* C37: for every accepted capacity range the capacity provisioned, the
\* chosen size in GiB as bytes, is no less than required and no more than
\* limit, each when defined.
C37_WithinRange ==
    (fn.op = "parseCapacity" /\ fn.out.code = "")
        => /\ Positive(fn.in[1]) => ~Less(Bytes(fn.out.size, 0), fn.in[1])
           /\ Positive(fn.in[2]) => ~Less(fn.in[2], Bytes(fn.out.size, 0))


\* The node has access to the volume: its IP is in the nodes ipset and has
\* a line in /etc/exports.
Published(nodeID) ==
    \E ip \in OwnIPs(nodeID) : ip \in ipset /\ ExportLine(ip) \in Range(exports)

\* C38: publishing a volume to a node that has access already, no step
\* failing, succeeds and leaves /etc/exports and the nodes ipset as they
\* were.
C38_PublishIdempotent ==
    [][\A nodeID \in NodeIds :
          (Published(nodeID) /\ AddNodeUnfaulted(nodeID)) =>
              /\ fn'.out = "OK"
              /\ exports' = exports
              /\ ipset' = ipset]_vars

\* The node has no access to the volume: its IP, if it has one, is not in
\* the nodes ipset and has no line in /etc/exports.
Unpublished(nodeID) ==
    \A ip \in OwnIPs(nodeID) : ip \notin ipset /\ ExportLine(ip) \notin Range(exports)

\* The step is a RemoveNode for nodeID that met no fault.
RemoveNodeUnfaulted(nodeID) ==
    LET m == RemoveNode(ns, nodeID, "none", servers, TheWorld)
    IN  /\ fn' = [op |-> "RemoveNode", in |-> nodeID, out |-> Outcome(m)]
        /\ ipset' = m.w.ipset
        /\ exports' = m.w.exports
        /\ scripts' = m.w.scripts

\* C39: unpublishing a volume from a node that has no access to it (never
\* published, unpublished already, or without a server record in the
\* IaaS), no step failing, succeeds and leaves /etc/exports and the nodes
\* ipset as they were.
C39_UnpublishIdempotent ==
    [][\A nodeID \in NodeIds :
          (Unpublished(nodeID) /\ RemoveNodeUnfaulted(nodeID)) =>
              /\ fn'.out = "OK"
              /\ exports' = exports
              /\ ipset' = ipset]_vars

====
